---- MODULE Spec2Model ----
(***************************************************************************)
(* Walk-cycle state machine of the hexapod walk controller                 *)
(* (WalkController::updateWalk, src/src/walkController.cpp).               *)
(*                                                                         *)
(* Velocities are measured in whole slew steps: one unit of                *)
(* localCentreVelocity is maxAcceleration*timeDelta and one unit of        *)
(* angularVelocity is maxCurvatureSpeed*timeDelta, so the rate limiters of *)
(* updateWalk move each of them by at most one unit per tick.  The leg     *)
(* lever arms are taken to be generic, so that a leg's stride vector is    *)
(* zero exactly when both body velocities are zero.                        *)
(***************************************************************************)
EXTENDS Integers, Naturals, Sequences, FiniteSets, TLC

\* ---------------------------------------------------------------- bounds
MaxNormaliser == 1
MaxPhaseOffset == 3
MaxSpeed == 4

\* ------------------------------------------------------ program constants
NUM_LEGS == 6

Legs == 0 .. (NUM_LEGS - 1)

\* the (stancePhase, swingPhase) pairs of the gait table
GaitTable == { <<2, 2>>, <<4, 2>> }

\* the params.offsetMultiplier arrays a gait is configured with, indexed
\* 2*l+s: all legs together, the tripods, one leg apart (the first of the
\* loop, the last), the two sides, and three-phase patterns
OffsetMultiplierTable ==
  { <<0, 0, 0, 0, 0, 0>>, <<1, 1, 1, 1, 1, 1>>,
    <<0, 1, 1, 0, 0, 1>>, <<1, 0, 0, 1, 1, 0>>,
    <<1, 0, 0, 0, 0, 0>>, <<0, 0, 0, 0, 0, 1>>,
    <<0, 1, 0, 1, 0, 1>>, <<1, 1, 1, 0, 0, 0>>,
    <<0, 1, 2, 0, 1, 2>>, <<2, 1, 0, 2, 0, 1>> }

\* the commanded speeds a tick is given: none, or full speed
CommandedSpeeds == { 0, MaxSpeed }

\* the commanded curvatures: straight ahead, or turning on the spot
CommandedCurvatures == { 0, 1 }

\* the stance radius in slew units: turning on the spot at full speed is one
\* angular slew step
stanceRadius == MaxSpeed

WalkStates == { "STOPPED", "STARTING", "MOVING", "STOPPING" }
StepStates == { "SWING", "STANCE", "FORCE_STANCE", "FORCE_STOP" }

\* C++ operator % on ints: the quotient truncates toward zero
CMod(a, b) == IF a >= 0 THEN a % b ELSE 0 - ((0 - a) % b)

Abs(x) == IF x < 0 THEN 0 - x ELSE x
Sign(x) == IF x < 0 THEN 0 - 1 ELSE IF x > 0 THEN 1 ELSE 0

\* v + d*min(1, 1/|d|) in slew units: at most one unit towards the target
SlewLimit(d) == IF Abs(d) > 1 THEN Sign(d) ELSE d

VARIABLES
  state,                  \* walk state
  legsInCorrectPhase,
  legsCompletedFirstStep,
  legSteppers,            \* per leg: phase, phaseOffset, inCorrectPhase,
                          \*          completedFirstStep, state
  localCentreVelocity,
  angularVelocity,
  phaseLength,
  swingStart,
  swingEnd,
  prev,                   \* what the last tick started from and was given
  startTicks,             \* ticks of the current start-up, this one included
  stopTicks,              \* ticks of the current stop, this one included
  decayTicks,             \* ticks of the current stop that ended with the
                          \* body still moving
  aborted,                \* an ASSERT of updateWalk has failed
  poser,                  \* PoseController: the transition sequencer's members
  legPosers,              \* per leg: LegPoser members and the leg's tip
  sequencer,              \* the sequencer's caller, parameters and last call
  manualPosing,           \* PoseController: the manual pose and its last call
  bodyPosing,             \* PoseController: the poses updateCurrentPose adds
  autoPosing,             \* PoseController: the auto posers and their cycle
  imuPosing,              \* PoseController: the IMU pose's PID members
  jointPosing,            \* LegPoser: a leg's joints and their move to a target
  tipCurves               \* LegStepper: the control nodes of a leg's curves

vars == << state, legsInCorrectPhase, legsCompletedFirstStep, legSteppers,
           localCentreVelocity, angularVelocity, phaseLength, swingStart,
           swingEnd, prev, startTicks, stopTicks, decayTicks, aborted,
          poser, legPosers, sequencer,
           manualPosing, bodyPosing, autoPosing, imuPosing, jointPosing,
           tipCurves >>

stanceEnd == swingStart
stanceStart == swingEnd

\* ticks after which the tick counters stop counting
TickCap == 2 * phaseLength + MaxSpeed + 2

\* ------------------------------------------------------------ setGaitParams
\* normaliser stands for roundToInt((1/(2*stepFrequency*timeDelta))/swingPhase)
setGaitParams(stancePhase, swingPhase, normaliser, phaseOffset, offsetMultiplier) ==
  LET basePhaseLength == stancePhase + swingPhase
      pLength == normaliser * basePhaseLength
      sStart == (stancePhase \div 2) * normaliser
  IN  [ phaseLength |-> pLength,
        swingStart  |-> sStart,
        swingEnd    |-> sStart + swingPhase * normaliser,
        phaseOffset |-> [ l \in Legs |->
                           CMod((phaseOffset * normaliser) * offsetMultiplier[l], pLength) ] ]

\* ------------------------------------------------------------------- Init
\* init() leaves every leg at phase 0 with the body at rest; the walk state,
\* the two counters, the per-leg flags and the step state start at their
\* member initialisers (STOPPED, 0, false, STANCE).
InitStepper(offset) ==
  [ phase |-> 0, phaseOffset |-> offset, inCorrectPhase |-> FALSE,
    completedFirstStep |-> FALSE, state |-> "STANCE" ]

NoPrev ==
  [ state |-> "STOPPED", legsInCorrectPhase |-> 0, legsCompletedFirstStep |-> 0,
    normalSpeed |-> 0, newAngularVelocity |-> 0, ticked |-> FALSE,
    phase |-> [ l \in Legs |-> 0 ], entryPhase |-> [ l \in Legs |-> 0 ],
    command |-> 0 ]

\* the walk cycle is studied with the transition sequencer at rest, and
\* the sequencer with the walk cycle at rest
seqVars == << poser, legPosers, sequencer >>

walkVars == << state, legsInCorrectPhase, legsCompletedFirstStep, legSteppers,
               localCentreVelocity, angularVelocity, phaseLength, swingStart,
               swingEnd, prev, startTicks, stopTicks, decayTicks, aborted >>

\* body posing is studied on its own, one part of it at a time
poseVars == << manualPosing, bodyPosing, autoPosing, imuPosing, jointPosing >>

ManualPosingParked == manualPosing = << >>
BodyPosingParked == bodyPosing = << >>
AutoPosingParked == autoPosing = << >>
ImuPosingParked == imuPosing = << >>
JointPosingParked == jointPosing = << >>

PosingParked ==
  /\ ManualPosingParked /\ BodyPosingParked /\ AutoPosingParked
  /\ ImuPosingParked /\ JointPosingParked

\* the control nodes of the tip trajectory are studied on their own
curveVars == << tipCurves >>

TipCurvesParked == tipCurves = << >>

SequencerParked == poser = << >> /\ legPosers = << >> /\ sequencer = << >>

InitWalk(g, n, po, om) ==
  LET gp == setGaitParams(g[1], g[2], n, po, [ l \in Legs |-> om[l + 1] ])
  IN  /\ phaseLength = gp.phaseLength
      /\ swingStart = gp.swingStart
      /\ swingEnd = gp.swingEnd
      /\ legSteppers = [ l \in Legs |-> InitStepper(gp.phaseOffset[l]) ]
      /\ state = "STOPPED"
      /\ legsInCorrectPhase = 0
      /\ legsCompletedFirstStep = 0
      /\ localCentreVelocity = 0
      /\ angularVelocity = 0
      /\ prev = NoPrev
      /\ startTicks = 0
      /\ stopTicks = 0
      /\ decayTicks = 0
      /\ aborted = FALSE

Init ==
  /\ \E g \in GaitTable, n \in 1 .. MaxNormaliser, po \in 1 .. MaxPhaseOffset,
        om \in OffsetMultiplierTable : InitWalk(g, n, po, om)
  /\ SequencerParked
  /\ PosingParked
  /\ TipCurvesParked

\* ------------------------------------------------- updateWalk: transitions
\* the if / else-if chain deciding the walk state; w is the controller
\* [state, lic, lcfs, legs]
EnterStartingPhase_NoDecrement(leg) == leg.phaseOffset

EnterStartingPhase(leg) == leg.phaseOffset - 1

StartingComplete_IgnoresFirstStep(w) == w.lic = NUM_LEGS

StartingComplete(w) == w.lic = NUM_LEGS /\ w.lcfs = NUM_LEGS

StopRequested_Inverted(normalSpeed) == normalSpeed # 0

StopRequested(normalSpeed) == normalSpeed = 0

StoppingComplete_OneShort(w) == w.lic >= NUM_LEGS - 1

StoppingComplete(w) == w.lic = NUM_LEGS

\* the chain with plain ifs: a later test sees the state an earlier one set
WalkTransition_FallThrough(w, normalSpeed) ==
  LET w1 == IF w.state = "STOPPED" /\ normalSpeed # 0
            THEN [ w EXCEPT !.state = "STARTING",
                            !.legs = [ l \in Legs |->
                                        [ w.legs[l] EXCEPT !.phase = EnterStartingPhase(w.legs[l]) ] ] ]
            ELSE w
      w2 == IF w1.state = "STARTING" /\ StartingComplete(w1)
            THEN [ w1 EXCEPT !.lic = 0, !.lcfs = 0, !.state = "MOVING" ]
            ELSE w1
      w3 == IF w2.state = "MOVING" /\ StopRequested(normalSpeed)
            THEN [ w2 EXCEPT !.state = "STOPPING" ]
            ELSE w2
  IN  IF w3.state = "STOPPING" /\ StoppingComplete(w3)
      THEN [ w3 EXCEPT !.lic = 0, !.state = "STOPPED" ]
      ELSE w3

WalkTransition(w, normalSpeed) ==
  IF w.state = "STOPPED" /\ normalSpeed # 0
  THEN [ w EXCEPT !.state = "STARTING",
                  !.legs = [ l \in Legs |->
                              [ w.legs[l] EXCEPT !.phase = EnterStartingPhase(w.legs[l]) ] ] ]
  ELSE IF w.state = "STARTING" /\ StartingComplete(w)
  THEN [ w EXCEPT !.lic = 0, !.lcfs = 0, !.state = "MOVING" ]
  ELSE IF w.state = "MOVING" /\ StopRequested(normalSpeed)
  THEN [ w EXCEPT !.state = "STOPPING" ]
  ELSE IF w.state = "STOPPING" /\ StoppingComplete(w)
  THEN [ w EXCEPT !.lic = 0, !.state = "STOPPED" ]
  ELSE w

\* ------------------------------------------ updateWalk: robot state machine
NextPhase_NoWrap(phase) == phase + 1

NextPhase(phase) == CMod(phase + 1, phaseLength)

\* the phase at which a leg in STARTING has made its first step
FirstStepDone_AtCycleEnd(phase) == phase = phaseLength

FirstStepDone(phase) == phase = swingEnd

\* the leg that makes the extra step: l == 0 && s == 0
IsReferenceLeg_Last(l) == l = NUM_LEGS - 1

IsReferenceLeg(l) == l = 0

\* a leg that has just been stopped is counted unless it is the reference leg
CountStoppedLeg_Inverted(l, inCorrectPhase) == IsReferenceLeg(l) /\ ~inCorrectPhase

CountStoppedLeg(l, inCorrectPhase) == ~IsReferenceLeg(l) /\ ~inCorrectPhase

\* the swing window of the leg state machine
InSwing_Late(phase) == phase > swingStart /\ phase < swingEnd

InSwing(phase) == phase >= swingStart /\ phase < swingEnd

\* a leg that starts offset in a mid-swing state (455)
StartsMidSwing_FromSwingStart(leg) ==
  leg.phaseOffset >= swingStart /\ leg.phaseOffset < swingEnd

StartsMidSwing(leg) ==
  leg.phaseOffset > swingStart /\ leg.phaseOffset < swingEnd

\* the loop in STARTING without the test of inCorrectPhase (453)
StartingLeg_CountsAgain(a, l) ==
  LET leg == a.legs[l]
      ph  == NextPhase(leg.phase)
      first == a.lic = NUM_LEGS /\ FirstStepDone(ph) /\ ~leg.completedFirstStep
      leg1 == [ leg EXCEPT !.phase = ph,
                           !.completedFirstStep = IF first THEN TRUE ELSE @ ]
      midSwing == StartsMidSwing(leg)
      mark == midSwing => ph = swingEnd
  IN  [ lic  |-> IF mark THEN a.lic + 1 ELSE a.lic,
        lcfs |-> IF first THEN a.lcfs + 1 ELSE a.lcfs,
        legs |-> [ a.legs EXCEPT ![l] =
                     [ leg1 EXCEPT !.inCorrectPhase = IF mark THEN TRUE ELSE @,
                                   !.state = IF mark THEN @ ELSE "FORCE_STANCE" ] ] ]

\* one leg of the loop in STARTING; a is [lic, lcfs, legs]
StartingLeg(a, l) ==
  LET leg == a.legs[l]
      ph  == NextPhase(leg.phase)
      first == a.lic = NUM_LEGS /\ FirstStepDone(ph) /\ ~leg.completedFirstStep
      leg1 == [ leg EXCEPT !.phase = ph,
                           !.completedFirstStep = IF first THEN TRUE ELSE @ ]
      lcfs1 == IF first THEN a.lcfs + 1 ELSE a.lcfs
      midSwing == StartsMidSwing(leg)
      mark == ~leg.inCorrectPhase /\ (midSwing => ph = swingEnd)
      hold == ~leg.inCorrectPhase /\ midSwing /\ ph # swingEnd
      leg2 == [ leg1 EXCEPT !.inCorrectPhase = IF mark THEN TRUE ELSE @,
                            !.state = IF hold THEN "FORCE_STANCE" ELSE @ ]
  IN  [ lic  |-> IF mark THEN a.lic + 1 ELSE a.lic,
        lcfs |-> lcfs1,
        legs |-> [ a.legs EXCEPT ![l] = leg2 ] ]

\* the test that sets a leg to FORCE_STOP (490)
ForceStopDue_AnyStride(strideZero, phase) == phase = swingEnd

ForceStopDue(strideZero, phase) == strideZero /\ phase = swingEnd

\* one leg of the loop in STOPPING
StoppingLeg(a, l, strideZero) ==
  LET leg == a.legs[l]
      adv == ~leg.inCorrectPhase
      ph  == IF adv THEN NextPhase(leg.phase) ELSE leg.phase
      refDone == adv /\ IsReferenceLeg(l) /\ leg.state = "FORCE_STOP" /\ ph = 0
      leg1 == [ leg EXCEPT !.phase = ph,
                           !.inCorrectPhase = IF refDone THEN TRUE ELSE @,
                           !.state = IF refDone THEN "STANCE" ELSE @ ]
      lic1 == IF refDone THEN a.lic + 1 ELSE a.lic
      stop == ForceStopDue(strideZero, ph)
      mark == stop /\ CountStoppedLeg(l, leg1.inCorrectPhase)
      leg2 == [ leg1 EXCEPT !.state = IF stop THEN "FORCE_STOP" ELSE @,
                            !.inCorrectPhase = IF mark THEN TRUE ELSE @ ]
  IN  [ lic  |-> IF mark THEN lic1 + 1 ELSE lic1,
        lcfs |-> a.lcfs,
        legs |-> [ a.legs EXCEPT ![l] = leg2 ] ]

MovingLeg_UnlessInCorrectPhase(a, l) ==
  [ a EXCEPT !.legs[l].phase = IF a.legs[l].inCorrectPhase THEN @ ELSE NextPhase(@),
             !.legs[l].inCorrectPhase = FALSE ]

MovingLeg(a, l) ==
  [ a EXCEPT !.legs[l].phase = NextPhase(@),
             !.legs[l].inCorrectPhase = FALSE ]

StoppedLeg(a, l) ==
  [ a EXCEPT !.legs[l].inCorrectPhase = FALSE,
             !.legs[l].completedFirstStep = FALSE,
             !.legs[l].phase = 0,
             !.legs[l].state = "STANCE" ]

RobotLeg(walkState, a, l, strideZero) ==
  CASE walkState = "STARTING" -> StartingLeg(a, l)
    [] walkState = "STOPPING" -> StoppingLeg(a, l, strideZero)
    [] walkState = "MOVING"   -> MovingLeg(a, l)
    [] walkState = "STOPPED"  -> StoppedLeg(a, l)

\* the legs are visited in the order of the nested l, s loops: index 2*l+s
RECURSIVE RobotStateMachine(_, _, _, _)
RobotStateMachine(walkState, a, l, strideZero) ==
  IF l = NUM_LEGS THEN a
  ELSE RobotStateMachine(walkState, RobotLeg(walkState, a, l, strideZero), l + 1, strideZero)

\* -------------------------------------------- updateWalk: leg state machine
LegStateMachine(leg) ==
  IF leg.state = "FORCE_STANCE" THEN [ leg EXCEPT !.state = "STANCE" ]
  ELSE IF leg.state = "FORCE_STOP" THEN leg
  ELSE IF InSwing(leg.phase)
  THEN [ leg EXCEPT !.state = "SWING" ]
  ELSE IF leg.phase < stanceEnd \/ leg.phase >= stanceStart
  THEN [ leg EXCEPT !.state = "STANCE" ]
  ELSE leg

\* ----------------------------------------------------------- updateWalk
\* The leg loop (425-516) reads the member `state` after the transition
\* chain (393-423) has assigned it: every leg is advanced under that value.
StateAtLegLoop_Stale(before, after) == before

StateAtLegLoop(before, after) == after

Count(n, more) == IF more THEN (IF n < TickCap THEN n + 1 ELSE n) ELSE 0

updateWalk(localNormalisedVelocity, newCurvature) ==
  LET localVelocity == IF state # "STOPPING" THEN localNormalisedVelocity ELSE 0
      normalSpeed == localVelocity
      newAngularVelocity == (newCurvature * normalSpeed) \div stanceRadius
      angVel == angularVelocity + SlewLimit(newAngularVelocity - angularVelocity)
      centralVelocity == localVelocity * (1 - Abs(newCurvature))
      lcVel == localCentreVelocity + SlewLimit(centralVelocity - localCentreVelocity)
      strideZero == lcVel = 0 /\ angVel = 0
      w0 == [ state |-> state, lic |-> legsInCorrectPhase,
              lcfs |-> legsCompletedFirstStep, legs |-> legSteppers ]
      w1 == WalkTransition(w0, normalSpeed)
      a1 == RobotStateMachine(StateAtLegLoop(state, w1.state),
                              [ lic |-> w1.lic, lcfs |-> w1.lcfs, legs |-> w1.legs ],
                              0, strideZero)
  IN  /\ ~aborted
      /\ state' = w1.state
      /\ legsInCorrectPhase' = a1.lic
      /\ legsCompletedFirstStep' = a1.lcfs
      /\ legSteppers' = [ l \in Legs |-> LegStateMachine(a1.legs[l]) ]
      /\ localCentreVelocity' = lcVel
      /\ angularVelocity' = angVel
      /\ prev' = [ state |-> state,
                   legsInCorrectPhase |-> legsInCorrectPhase,
                   legsCompletedFirstStep |-> legsCompletedFirstStep,
                   normalSpeed |-> normalSpeed,
                   newAngularVelocity |-> newAngularVelocity,
                   ticked |-> TRUE,
                   phase |-> [ l \in Legs |-> legSteppers[l].phase ],
                   entryPhase |-> [ l \in Legs |-> w1.legs[l].phase ],
                   command |-> localNormalisedVelocity ]
      /\ startTicks' = Count(startTicks, w1.state = "STARTING" \/ state = "STARTING")
      /\ stopTicks' = Count(stopTicks, w1.state = "STOPPING" \/ state = "STOPPING")
      /\ decayTicks' = IF w1.state = "STOPPING" \/ state = "STOPPING"
                       THEN (IF strideZero THEN decayTicks ELSE Count(decayTicks, TRUE))
                       ELSE 0
      /\ UNCHANGED << phaseLength, swingStart, swingEnd, aborted >>

Tick ==
  /\ \E v \in CommandedSpeeds, c \in CommandedCurvatures : updateWalk(v, c)
  /\ UNCHANGED << seqVars, poseVars, curveVars >>

Next == Tick

Spec == Init /\ [][Next]_vars

TypeOK ==
  /\ state \in WalkStates
  /\ \A l \in Legs : legSteppers[l].state \in StepStates
  /\ localCentreVelocity \in 0 .. MaxSpeed
  /\ angularVelocity \in 0 .. MaxSpeed

\* ---------------------------------------------------------------- claims
Leg(l) == legSteppers[l]

AllLegs(P(_)) == \A l \in Legs : P(l)

\* C1: a tick that begins in STOPPED with a non-zero commanded speed (linear,
\* or the angular speed derived from it) ends in STARTING, every leg's phase
\* having been set to phaseOffset - 1 before the advance, so that it ends the
\* tick at phaseOffset mod phaseLength; with a zero command the state stays
\* STOPPED.
C1_StoppedToStarting ==
  (prev.ticked /\ prev.state = "STOPPED") =>
    IF prev.normalSpeed # 0 \/ prev.newAngularVelocity # 0
    THEN /\ state = "STARTING"
         /\ \A l \in Legs :
              /\ prev.entryPhase[l] = Leg(l).phaseOffset - 1
              /\ Leg(l).phase = Leg(l).phaseOffset % phaseLength
    ELSE state = "STOPPED"

C1_Witness ==
  /\ prev.ticked /\ prev.state = "STOPPED" /\ prev.normalSpeed # 0
  /\ state = "STARTING"
  /\ \E l \in Legs : Leg(l).phaseOffset = 0 /\ prev.entryPhase[l] = 0 - 1
  /\ \E l \in Legs : Leg(l).phaseOffset > 0

\* C2: a tick that begins in STARTING ends in MOVING exactly when both
\* counters equalled the leg count at its start, and then both are 0.
C2_StartingToMoving ==
  (prev.ticked /\ prev.state = "STARTING") =>
    /\ (state = "MOVING") <=>
         (prev.legsInCorrectPhase = NUM_LEGS /\ prev.legsCompletedFirstStep = NUM_LEGS)
    /\ (state = "MOVING") => (legsInCorrectPhase = 0 /\ legsCompletedFirstStep = 0)
    /\ (state # "MOVING") => state = "STARTING"

C2_Witness ==
  /\ prev.ticked /\ prev.state = "STARTING" /\ state = "MOVING"
  /\ prev.legsInCorrectPhase = NUM_LEGS /\ prev.legsCompletedFirstStep = NUM_LEGS
  /\ legsInCorrectPhase = 0 /\ legsCompletedFirstStep = 0

\* C3: a start-up reaches MOVING on its 2*phaseLength-th tick at the latest,
\* and every leg has completed its first step by then.
C3_StartupCompleteness ==
  /\ (state = "STARTING") => startTicks < 2 * phaseLength
  /\ (prev.state = "STARTING" /\ state = "MOVING") =>
       /\ startTicks <= 2 * phaseLength
       /\ \A l \in Legs : Leg(l).completedFirstStep

C3_Witness ==
  /\ prev.state = "STARTING" /\ state = "MOVING"
  /\ startTicks > phaseLength + 2
  /\ \E l \in Legs : Leg(l).phaseOffset > swingStart /\ Leg(l).phaseOffset < swingEnd
  /\ \A l \in Legs : Leg(l).completedFirstStep

\* the last tick spent in STOPPING has ended: the next tick enters STOPPED
LastStoppingTickDone == state = "STOPPING" /\ legsInCorrectPhase = NUM_LEGS

\* C4 as stated: at the end of the last tick spent in STOPPING every leg is
\* at phase 0 in STANCE.
C4_AsStated ==
  LastStoppingTickDone =>
    \A l \in Legs : Leg(l).phase = 0 /\ Leg(l).state = "STANCE"

\* C4: at the end of the last tick spent in STOPPING no leg is in SWING: the
\* reference leg is at phase 0 in STANCE and every other leg is held in
\* FORCE_STOP at phase swingEnd; the tick that enters STOPPED puts every leg
\* at phase 0 in STANCE.
C4_StoppingSafety ==
  /\ LastStoppingTickDone =>
       \A l \in Legs :
         IF l = 0
         THEN Leg(l).phase = 0 /\ Leg(l).state = "STANCE"
         ELSE Leg(l).phase = swingEnd /\ Leg(l).state = "FORCE_STOP"
  /\ (prev.state = "STOPPING" /\ state = "STOPPED") =>
       \A l \in Legs : Leg(l).phase = 0 /\ Leg(l).state = "STANCE"

C4_Witness ==
  /\ prev.state = "STOPPING" /\ state = "STOPPED"
  /\ \A l \in Legs : Leg(l).phase = 0 /\ Leg(l).state = "STANCE"
  /\ \E l \in Legs : prev.phase[l] = swingEnd
  /\ prev.phase[0] = 0

\* C5 as stated: a stop enters STOPPED on its 2*phaseLength-th tick at the
\* latest, however long the body velocity takes to decay.
C5_AsStated ==
  /\ (state = "STOPPING") => stopTicks < 2 * phaseLength
  /\ (prev.state = "STOPPING" /\ state = "STOPPED") => stopTicks <= 2 * phaseLength

\* C5: a stop enters STOPPED at the latest on the 2*phaseLength-th of its
\* ticks on which the body velocity is zero.
C5_GracefulStop ==
  /\ (state = "STOPPING") => stopTicks - decayTicks < 2 * phaseLength
  /\ (prev.state = "STOPPING" /\ state = "STOPPED") =>
       stopTicks - decayTicks <= 2 * phaseLength

C5_Witness ==
  /\ prev.state = "STOPPING" /\ state = "STOPPED"
  /\ decayTicks > 0
  /\ stopTicks > 2 * phaseLength
  /\ stopTicks - decayTicks <= 2 * phaseLength

\* C6: a tick that begins in STOPPING ends in STOPPED exactly when
\* legsInCorrectPhase equalled the leg count at its start, and then the
\* counter is 0.
C6_StoppingToStopped ==
  (prev.ticked /\ prev.state = "STOPPING") =>
    /\ (state = "STOPPED") <=> (prev.legsInCorrectPhase = NUM_LEGS)
    /\ (state = "STOPPED") => legsInCorrectPhase = 0
    /\ (state # "STOPPED") => state = "STOPPING"

C6_Witness ==
  /\ prev.ticked /\ prev.state = "STOPPING" /\ state = "STOPPED"
  /\ prev.legsInCorrectPhase = NUM_LEGS /\ legsInCorrectPhase = 0

\* C7: a tick that begins in MOVING ends in STOPPING if the commanded speed
\* is zero and in MOVING otherwise.
C7_MovingToStopping ==
  (prev.ticked /\ prev.state = "MOVING") =>
    IF prev.normalSpeed = 0 THEN state = "STOPPING" ELSE state = "MOVING"

C7_Witness ==
  /\ prev.ticked /\ prev.state = "MOVING" /\ prev.normalSpeed = 0
  /\ state = "STOPPING" /\ localCentreVelocity > 0

\* C8: on a tick that the legs are advanced under MOVING (and on one that
\* leaves MOVING) every leg's phase advances by exactly 1 modulo phaseLength.
C8_PhaseMonotonicity ==
  (prev.ticked /\ (state = "MOVING" \/ prev.state = "MOVING")) =>
    \A l \in Legs : Leg(l).phase = (prev.phase[l] + 1) % phaseLength

C8_Witness ==
  /\ prev.ticked /\ state = "MOVING" /\ prev.state = "MOVING"
  /\ \E l \in Legs : prev.phase[l] = phaseLength - 1 /\ Leg(l).phase = 0
  /\ \E l \in Legs : prev.phase[l] < phaseLength - 1 /\ Leg(l).phase = prev.phase[l] + 1

\* C9: at the end of every tick every leg's phase is in [0, phaseLength).
C9_PhaseInRange ==
  \A l \in Legs : Leg(l).phase >= 0 /\ Leg(l).phase < phaseLength

C9_Witness ==
  /\ prev.ticked /\ prev.state = "STOPPED" /\ state = "STARTING"
  /\ \E l \in Legs : Leg(l).phaseOffset = 0 /\ prev.entryPhase[l] < 0 /\ Leg(l).phase = 0

\* a leg that STARTING is holding out of swing
HeldInStarting(l) == state = "STARTING" /\ ~Leg(l).inCorrectPhase

\* C10 as stated: at the end of every tick a leg that is not in FORCE_STANCE
\* or FORCE_STOP is in SWING exactly when swingStart <= phase < swingEnd,
\* legs held out of swing during STARTING included.
C10_AsStated ==
  \A l \in Legs :
    (Leg(l).state \notin { "FORCE_STANCE", "FORCE_STOP" }) =>
      ((Leg(l).state = "SWING") <=> (Leg(l).phase >= swingStart /\ Leg(l).phase < swingEnd))

\* C10: at the end of every tick a leg that is not in FORCE_STOP and is not
\* being held out of swing by STARTING is in SWING exactly when
\* swingStart <= phase < swingEnd, and in STANCE otherwise; a leg held by
\* STARTING is in STANCE; no leg is in FORCE_STANCE.
C10_SubStateConsistency ==
  \A l \in Legs :
    /\ Leg(l).state # "FORCE_STANCE"
    /\ HeldInStarting(l) => Leg(l).state = "STANCE"
    /\ (Leg(l).state # "FORCE_STOP" /\ ~HeldInStarting(l)) =>
         IF Leg(l).phase >= swingStart /\ Leg(l).phase < swingEnd
         THEN Leg(l).state = "SWING"
         ELSE Leg(l).state = "STANCE"

C10_Witness ==
  /\ state = "STARTING"
  /\ \E l \in Legs : HeldInStarting(l) /\ Leg(l).state = "STANCE"
                     /\ Leg(l).phase > swingStart /\ Leg(l).phase < swingEnd
  /\ \E l \in Legs : ~HeldInStarting(l) /\ Leg(l).state = "STANCE"
                     /\ Leg(l).phase < swingStart

\* C11: within one updateWalk tick the walk state makes at most the one
\* transition decided at the top of the tick, and every leg is advanced by
\* the branch of that decided state: in a tick ending in Starting every leg
\* steps on from its entry phase, in one ending in Moving every leg advances
\* by one and is not in correct phase, in one ending in Stopped every leg is
\* reset, in one ending in Stopping every leg holds or advances by one.
OneTransition(from, to) ==
  \/ from = to
  \/ << from, to >> \in { << "STOPPED", "STARTING" >>, << "STARTING", "MOVING" >>,
                         << "MOVING", "STOPPING" >>, << "STOPPING", "STOPPED" >> }

C11_LegsSeeDecidedState ==
  prev.ticked =>
    /\ OneTransition(prev.state, state)
    /\ \A l \in Legs :
         /\ state = "STARTING" => Leg(l).phase = (prev.entryPhase[l] + 1) % phaseLength
         /\ state = "MOVING" => /\ Leg(l).phase = (prev.phase[l] + 1) % phaseLength
                                /\ ~Leg(l).inCorrectPhase
         /\ state = "STOPPED" => /\ Leg(l).phase = 0
                                 /\ ~Leg(l).inCorrectPhase
                                 /\ ~Leg(l).completedFirstStep
         /\ state = "STOPPING" =>
               Leg(l).phase \in { prev.phase[l], (prev.phase[l] + 1) % phaseLength }

C11_Witness ==
  /\ prev.ticked /\ prev.state = "STOPPED" /\ state = "STARTING"
  /\ \E l, m \in Legs : Leg(l).phase # Leg(m).phase

\* ======================================================================
\* The transition sequencer: PoseController::executeSequence
\* (src/src/pose_controller.cpp), one call per tick of its caller.
\* ======================================================================

\* ---------------------------------------------------------------- bounds
\* transition steps after which executeSequence shuts the controller down
TRANSITION_STEP_THRESHOLD == 3
\* SAFETY_FACTOR in the units of the IK proximity levels
SAFETY_FACTOR == 1
\* leg->applyIK reports a limit proximity of 0 .. MaxProximity
MaxProximity == 1
\* operations (StartUp, ShutDown, change of stance) the caller runs where
\* the legs may meet their limits at any moment; one more where the first
\* StartUp meets none
MaxOperations == 3
\* 2 * TRANSITION_TIME / (step_frequency * time_delta): a first execution
\* takes this many iterations per step, a replay half as many
StepTime == 2
\* height of a stepped (not direct) horizontal transition
SwingHeight == 1

PROGRESS_COMPLETE == 100

PoserLegs == { 0, 1 }                    \* the leg container, in id order
LegCount == Cardinality(PoserLegs)       \* model_->getLegCount()
ProximityLevels == 0 .. MaxProximity
\* what applyIK may report: anything at any call, or nothing but the
\* highest level (clear of every limit) throughout the first StartUp
Workspaces == { "any", "clear" }
SequenceSelection == { "START_UP", "SHUT_DOWN" }

getGroup(l) == l % 2

Max(a, b) == IF a >= b THEN a ELSE b
Min(a, b) == IF a <= b THEN a ELSE b

\* ------------------------------------------------------------ positions
\* A tip position is [h, z]: its horizontal and its vertical component.
\* A component is a sequence of integers: << a >> is the coordinate a, and
\* a point part of the way along a step is the sequence Along builds from
\* the step's origin and target; two components are the same coordinate
\* exactly when they are the same sequence.
Coordinate(a) == << a >>
DefaultTipPosition == [ h |-> Coordinate(1), z |-> Coordinate(1) ]
PackedTipPosition == [ h |-> Coordinate(0), z |-> Coordinate(0) ]

\* quarticBezier on the primary (curve 1) or secondary (curve 2) control
\* nodes at time num / den, for one component going from origin to target
Along(origin, target, lift, curve, num, den) ==
  IF origin = target /\ lift = 0 THEN origin
  ELSE IF curve = 2 /\ num = den THEN target
  ELSE << -1, lift, curve, num, den >> \o origin \o target

\* ---------------------------------------------- LegPoser::stepToPosition
\* first execution: time_to_step is doubled before rounding
NumIterations(stepTime, first) ==
  IF first THEN Max(1, stepTime) ELSE Max(1, (stepTime + 1) \div 2)

\* lp is a leg: tip (the leg's current tip position, which the caller sets
\* from the poser's after every call), origin_tip_position,
\* master_iteration_count, first_iteration, target_tip_position,
\* leg_completed_step, transition_positions
stepToPosition(lp, target, lift_height, num_iterations) ==
  LET early == lp.first_iteration /\ lp.tip = target
      origin == IF lp.first_iteration THEN lp.tip ELSE lp.origin_tip_position
      master == (IF lp.first_iteration THEN 0 ELSE lp.master_iteration_count) + 1
      half_swing_iteration == num_iterations \div 2
      swing_iteration_count == CMod(master + (num_iterations - 1), num_iterations) + 1
      primary == swing_iteration_count <= half_swing_iteration
      num == IF primary THEN 2 * swing_iteration_count
             ELSE 2 * (swing_iteration_count - half_swing_iteration)
      curve == IF primary THEN 1 ELSE 2
      new == [ h |-> Along(origin.h, target.h, 0, curve, num, num_iterations),
               z |-> Along(origin.z, target.z, lift_height, curve, num, num_iterations) ]
      done == master >= num_iterations
  IN  IF early
      THEN [ leg |-> [ lp EXCEPT !.origin_tip_position = origin ],
             progress |-> PROGRESS_COMPLETE ]
      ELSE [ leg |-> [ lp EXCEPT !.origin_tip_position = origin,
                                 !.master_iteration_count = master,
                                 !.first_iteration = done,
                                 !.tip = new ],
             progress |-> IF done THEN PROGRESS_COMPLETE
                          ELSE ((master - 1) * PROGRESS_COMPLETE) \div num_iterations ]

\* LegPoser helpers of pose_controller.h
resetStepToPosition(lp) == [ lp EXCEPT !.first_iteration = TRUE ]

hasTransitionPosition(lp, index) == Len(lp.transition_positions) > index

\* index is a C++ vector index: position index + 1 of the sequence
getTransitionPosition(lp, index) == lp.transition_positions[index + 1]

addTransitionPosition(lp, position) ==
  [ lp EXCEPT !.transition_positions = Append(@, position) ]

resetTransitionSequence(lp) == [ lp EXCEPT !.transition_positions = << >> ]


\* ------------------------------------- executeSequence: set-up (166-220)
\* C++ integer division and the truth of an int
CDiv(a, b) == IF a >= 0 THEN a \div b ELSE -((-a) \div b)

ResetRequested_AnySequence(reset_transition_sequence, sequence) ==
  reset_transition_sequence

ResetRequested(reset_transition_sequence, sequence) ==
  reset_transition_sequence /\ sequence = "START_UP"

ResetTransition_CacheKept(pc, legs, sequence) ==
  IF ResetRequested(pc.reset_transition_sequence, sequence)
  THEN [ pc |-> [ pc EXCEPT !.reset_transition_sequence = FALSE,
                            !.first_sequence_execution = TRUE,
                            !.transition_step = 0 ],
         legs |-> [ l \in PoserLegs |->
                      addTransitionPosition(legs[l], legs[l].tip) ] ]
  ELSE [ pc |-> pc, legs |-> legs ]

\* pc is the PoseController, legs the legs
ResetTransition(pc, legs, sequence) ==
  IF ResetRequested(pc.reset_transition_sequence, sequence)
  THEN [ pc |-> [ pc EXCEPT !.reset_transition_sequence = FALSE,
                            !.first_sequence_execution = TRUE,
                            !.transition_step = 0 ],
         legs |-> [ l \in PoserLegs |->
                      addTransitionPosition(resetTransitionSequence(legs[l]),
                                            legs[l].tip) ] ]
  ELSE [ pc |-> pc, legs |-> legs ]

ExecuteHorizontal_Swapped(sequence, k) ==
  IF sequence = "START_UP" THEN CMod(k, 2) # 0 ELSE CMod(k, 2) = 0

ExecuteHorizontal(sequence, k) ==
  IF sequence = "START_UP" THEN CMod(k, 2) = 0 ELSE CMod(k, 2) # 0

ExecuteVertical(sequence, k) ==
  IF sequence = "START_UP" THEN CMod(k, 2) # 0 ELSE CMod(k, 2) = 0

NextTransitionStep(sequence, k) ==
  IF sequence = "START_UP" THEN k + 1 ELSE k - 1

TransitionStepTarget(sequence, transition_step_count) ==
  IF sequence = "START_UP" THEN transition_step_count ELSE 0

TotalProgress(sequence, k, transition_step_count) ==
  IF sequence = "START_UP"
  THEN CDiv(k * 100, Max(transition_step_count, 1))
  ELSE 100 - CDiv(k * 100, Max(transition_step_count, 1))

FinalTransition_TargetOnly(pc, next, target) == next = target

FinalTransition(pc, next, target) ==
  IF pc.first_sequence_execution
  THEN pc.horizontal_transition_complete \/ pc.vertical_transition_complete
  ELSE next = target

\* limit_proximity < safety_factor, the safety factor being
\* SAFETY_FACTOR / (k + 1) on a first execution and 0.0 on a replay
ExceededWorkspace_Never(limit_proximity, first, k) == FALSE

ExceededWorkspace(limit_proximity, first, k) ==
  IF first THEN limit_proximity * (k + 1) < SAFETY_FACTOR
  ELSE limit_proximity < 0

\* the target a step sets for a leg: the cached position of the next step
\* if the leg has one, else the walker's default, keeping the leg's
\* current height (horizontal) or its current horizontal position (vertical)
TransitionTarget_Default(lp, next, horizontal) ==
  IF horizontal THEN [ h |-> DefaultTipPosition.h, z |-> lp.tip.z ]
  ELSE [ h |-> lp.tip.h, z |-> DefaultTipPosition.z ]

TransitionTarget(lp, next, horizontal) ==
  LET cached == IF hasTransitionPosition(lp, next)
                THEN getTransitionPosition(lp, next)
                ELSE DefaultTipPosition
  IN  IF horizontal THEN [ h |-> cached.h, z |-> lp.tip.z ]
      ELSE [ h |-> lp.tip.h, z |-> cached.z ]


\* ---------------------------- executeSequence: horizontal step (223-354)
\* x is what the call fixed in its set-up: sequence, first, k, next, final,
\* direct_step, num_iterations and the proximity applyIK reports per leg.
\* a is what the leg loop updates: pc, legs, progress and alerted, and ik,
\* what applyIK reported for each leg it was called for (277), -1 for the
\* others.
SetHorizontalTarget(lp, next) ==
  [ lp EXCEPT !.leg_completed_step = FALSE,
              !.target_tip_position = TransitionTarget(lp, next, TRUE) ]

\* the position a first execution caches for a leg that completed its step
TransitionPosition_Nowhere(lp, reached_target) == lp.transition_positions

TransitionPosition(lp, reached_target) ==
  Append(lp.transition_positions,
         IF reached_target THEN lp.target_tip_position ELSE lp.tip)

\* a leg steps if it is in the stepping group or direct stepping is
\* allowed (268)
LegSteps_AllGroups(group, current_group, direct_step) == TRUE

LegSteps(group, current_group, direct_step) ==
  group = current_group \/ direct_step

HorizontalLeg(a, l, x) ==
  LET lp == a.legs[l]
      s == stepToPosition(lp, lp.target_tip_position,
                          IF x.direct_step THEN 0 ELSE SwingHeight,
                          x.num_iterations)
      exceeded_workspace == ExceededWorkspace(x.proximity[l], x.first, x.k)
      stopped == x.first /\ exceeded_workspace
      lp1 == IF stopped
             THEN resetStepToPosition([ s.leg EXCEPT !.target_tip_position = s.leg.tip ])
             ELSE s.leg
      progress == IF stopped THEN PROGRESS_COMPLETE ELSE s.progress
      complete == progress = PROGRESS_COMPLETE
      lp2 == IF complete
             THEN [ lp1 EXCEPT !.leg_completed_step = TRUE,
                               !.transition_positions =
                                  IF x.first
                                  THEN TransitionPosition(lp1, ~exceeded_workspace)
                                  ELSE @ ]
             ELSE lp1
  IN  IF lp.leg_completed_step THEN a
      ELSE IF LegSteps(getGroup(l), a.pc.current_group, x.direct_step)
      THEN [ a EXCEPT !.legs[l] = lp2,
                      !.ik[l] = x.proximity[l],
                      !.progress = progress,
                      !.alerted = @ \/ stopped,
                      !.pc.proximity_alert = @ \/ stopped,
                      !.pc.legs_completed_step = IF complete THEN @ + 1 ELSE @ ]
      ELSE [ a EXCEPT !.legs[l].leg_completed_step = TRUE,
                      !.pc.legs_completed_step = @ + 1 ]

RECURSIVE HorizontalLegs(_, _, _)
HorizontalLegs(a, l, x) ==
  IF l = LegCount THEN a ELSE HorizontalLegs(HorizontalLeg(a, l, x), l + 1, x)

HorizontalNormalisedProgress(pc, progress, direct_step) ==
  IF direct_step
  THEN CDiv(progress, Max(pc.transition_step_count, 1))
  ELSE CDiv(progress \div 2 + (IF pc.current_group = 0 THEN 0 ELSE 50),
            Max(pc.transition_step_count, 1))

\* the outcome of a step completed with or without a proximity alert
StepSafe_Always(alert) == TRUE

StepSafe(alert) == ~alert

\* r is the call's result so far: pc, legs, sequence_complete,
\* normalised_progress, stepped (the step completed on this call) and
\* alerted (a leg was stopped by the proximity test on this call)
HorizontalTransition(pc, legs, x) ==
  LET pc0 == [ pc EXCEPT !.set_target = FALSE ]
      legs0 == IF pc.set_target
               THEN [ l \in PoserLegs |-> SetHorizontalTarget(legs[l], x.next) ]
               ELSE legs
      a == HorizontalLegs([ pc |-> pc0, legs |-> legs0, progress |-> 0,
                            alerted |-> FALSE,
                            ik |-> [ l \in PoserLegs |-> -1 ] ], 0, x)
      normalised == HorizontalNormalisedProgress(a.pc, a.progress, x.direct_step)
      allDone == a.pc.legs_completed_step = LegCount
      stepDone == allDone /\ (a.pc.current_group = 1 \/ x.direct_step)
      pc1 == IF ~allDone THEN a.pc
             ELSE IF stepDone
             THEN [ a.pc EXCEPT !.set_target = TRUE,
                                !.legs_completed_step = 0,
                                !.current_group = 0,
                                !.transition_step = x.next,
                                !.horizontal_transition_complete =
                                   StepSafe(a.pc.proximity_alert),
                                !.proximity_alert = FALSE ]
             ELSE IF a.pc.current_group = 0
             THEN [ a.pc EXCEPT !.set_target = TRUE,
                                !.legs_completed_step = 0,
                                !.current_group = 1 ]
             ELSE [ a.pc EXCEPT !.set_target = TRUE, !.legs_completed_step = 0 ]
  IN  [ pc |-> pc1, legs |-> a.legs,
        sequence_complete |-> stepDone /\ x.final,
        normalised_progress |-> normalised,
        stepped |-> stepDone,
        alerted |-> a.alerted,
        stepAlert |-> stepDone /\ a.pc.proximity_alert,
        ik |-> a.ik,
        finished |-> [ l \in PoserLegs |-> FALSE ] ]


\* ------------------------------ executeSequence: vertical step (357-437)
\* the leg loop records in finished, per leg, whether stepToPosition
\* returned PROGRESS_COMPLETE for it on this call (405)
SetVerticalTarget(lp, next) ==
  [ lp EXCEPT !.target_tip_position = TransitionTarget(lp, next, FALSE) ]

VerticalLeg(a, l, x) ==
  LET s == stepToPosition(a.legs[l], a.legs[l].target_tip_position, 0,
                          x.num_iterations)
  IN  [ a EXCEPT !.legs[l] = s.leg,
                 !.progress = s.progress,
                 !.finished[l] = s.progress = PROGRESS_COMPLETE,
                 !.within = @ /\ ~ExceededWorkspace(x.proximity[l], x.first, x.k) ]

RECURSIVE VerticalLegs(_, _, _)
VerticalLegs(a, l, x) ==
  IF l = LegCount THEN a ELSE VerticalLegs(VerticalLeg(a, l, x), l + 1, x)

VerticalTransition(pc, legs, x) ==
  LET pc0 == [ pc EXCEPT !.set_target = FALSE ]
      legs0 == IF pc.set_target
               THEN [ l \in PoserLegs |-> SetVerticalTarget(legs[l], x.next) ]
               ELSE legs
      a == VerticalLegs([ pc |-> pc0, legs |-> legs0, progress |-> 0,
                          within |-> TRUE, finished |-> [ l \in PoserLegs |-> FALSE ] ], 0, x)
      stepDone == (~a.within /\ x.first) \/ a.progress = PROGRESS_COMPLETE
      legs1 == [ l \in PoserLegs |->
                   LET lp == resetStepToPosition(a.legs[l])
                   IN  IF x.first
                       THEN [ lp EXCEPT !.transition_positions =
                                           TransitionPosition(lp, a.within) ]
                       ELSE lp ]
  IN  IF stepDone
      THEN [ pc |-> [ a.pc EXCEPT !.vertical_transition_complete = a.within,
                                  !.transition_step = x.next,
                                  !.set_target = TRUE ],
             legs |-> legs1,
             sequence_complete |-> x.final,
             normalised_progress |->
                CDiv(PROGRESS_COMPLETE, Max(a.pc.transition_step_count, 1)),
             stepped |-> TRUE,
             alerted |-> ~a.within /\ x.first,
             stepAlert |-> ~a.within /\ x.first,
             ik |-> x.proximity,
             finished |-> a.finished ]
      ELSE [ pc |-> a.pc, legs |-> a.legs,
             sequence_complete |-> FALSE,
             normalised_progress |->
                CDiv(a.progress, Max(a.pc.transition_step_count, 1)),
             stepped |-> FALSE,
             alerted |-> FALSE,
             stepAlert |-> FALSE,
             ik |-> x.proximity,
             finished |-> a.finished ]

\* --------------------------------- executeSequence: epilogue (439-467)
ExcessiveTransitionSteps_OneMore(transition_step) ==
  transition_step > TRANSITION_STEP_THRESHOLD + 1

ExcessiveTransitionSteps(transition_step) ==
  transition_step > TRANSITION_STEP_THRESHOLD

ReturnValue_Estimate(first, sequence_complete, total_progress, normalised_progress) ==
  IF sequence_complete THEN PROGRESS_COMPLETE
  ELSE Min(total_progress + normalised_progress, PROGRESS_COMPLETE - 1)

ReturnValue(first, sequence_complete, total_progress, normalised_progress) ==
  IF sequence_complete THEN PROGRESS_COMPLETE
  ELSE IF first THEN -1
  ELSE Min(total_progress + normalised_progress, PROGRESS_COMPLETE - 1)


\* ------------------------------------------- executeSequence (162-468)
\* what the call fixes in its set-up (181-220), r0 being the state after
\* the reset block
SetUp(r0, sequence, legsBearingLoad, proximity, stepTime) ==
  LET k == r0.pc.transition_step
      first == r0.pc.first_sequence_execution
      next == NextTransitionStep(sequence, k)
      target == TransitionStepTarget(sequence, r0.pc.transition_step_count)
  IN  [ sequence |-> sequence, first |-> first, k |-> k, next |-> next,
        final |-> FinalTransition(r0.pc, next, target),
        direct_step |-> ~legsBearingLoad,
        num_iterations |-> NumIterations(stepTime, first),
        proximity |-> proximity,
        total_progress |-> TotalProgress(sequence, k, r0.pc.transition_step_count) ]

\* the horizontal block (223-354) of a call, entered or skipped
HorizontalStep(r0, x) ==
  IF ExecuteHorizontal(x.sequence, x.k)
  THEN HorizontalTransition(r0.pc, r0.legs, x)
  ELSE [ pc |-> r0.pc, legs |-> r0.legs, sequence_complete |-> FALSE,
         normalised_progress |-> 0, stepped |-> FALSE,
         alerted |-> FALSE, stepAlert |-> FALSE,
         ik |-> [ l \in PoserLegs |-> -1 ],
         finished |-> [ l \in PoserLegs |-> FALSE ] ]

\* the vertical block (357-437) of a call, entered or skipped; h is the
\* outcome of the horizontal block
VerticalStep(h, x) ==
  IF ExecuteVertical(x.sequence, x.k)
  THEN VerticalTransition(h.pc, h.legs, x) ELSE h

\* lines 440-444
UpdateStepCount(pc, first) ==
  IF first THEN [ pc EXCEPT !.transition_step_count = pc.transition_step ]
  ELSE pc

\* lines 453-467; pc1 is the controller after the count's update
EndOfCall(v, pc1, r0, x, wasReset) ==
  [ pc |-> IF v.sequence_complete
           THEN [ pc1 EXCEPT !.set_target = TRUE,
                             !.vertical_transition_complete = FALSE,
                             !.horizontal_transition_complete = FALSE,
                             !.first_sequence_execution = FALSE ]
           ELSE pc1,
    legs |-> v.legs,
    return |-> ReturnValue(x.first, v.sequence_complete, x.total_progress,
                           v.normalised_progress),
    fatal |-> ExcessiveTransitionSteps(pc1.transition_step),
    sequence |-> x.sequence, k |-> x.k, next |-> x.next, first |-> x.first,
    final |-> x.final,
    horizontal |-> ExecuteHorizontal(x.sequence, x.k),
    vertical |-> ExecuteVertical(x.sequence, x.k),
    stepped |-> v.stepped, alerted |-> v.alerted, stepAlert |-> v.stepAlert,
    wasReset |-> wasReset,
    ik |-> v.ik,
    finished |-> v.finished,
    entry |-> r0,
    targets |-> [ l \in PoserLegs |-> v.legs[l].target_tip_position ] ]

AfterTransition(v, r0, x, wasReset) ==
  EndOfCall(v, UpdateStepCount(v.pc, x.first), r0, x, wasReset)

AfterSetUp(r0, x, wasReset) ==
  AfterTransition(VerticalStep(HorizontalStep(r0, x), x), r0, x, wasReset)

AfterReset(r0, wasReset, sequence, legsBearingLoad, proximity, stepTime) ==
  AfterSetUp(r0, SetUp(r0, sequence, legsBearingLoad, proximity, stepTime),
             wasReset)

\* The result: the controller and the legs after the call, the value
\* returned, whether ros::shutdown() was called, and what the call did.
executeSequence(pc, legs, sequence, legsBearingLoad, proximity, stepTime) ==
  AfterReset(ResetTransition(pc, legs, sequence),
             ResetRequested(pc.reset_transition_sequence, sequence),
             sequence, legsBearingLoad, proximity, stepTime)

\* ------------------------------------------- stepToNewStance (502-538)
\* model_->getLegCount() for the leg container `legs`
getLegCount(legs) == Cardinality(DOMAIN legs)

NewStanceLeg(a, l, stepTime) ==
  LET s == stepToPosition(a.legs[l], DefaultTipPosition, SwingHeight,
                          NumIterations(stepTime, FALSE))
  IN  IF getGroup(l) = a.pc.current_group
      THEN [ a EXCEPT !.legs[l] = s.leg,
                      !.progress = s.progress,
                      !.pc.legs_completed_step =
                         IF s.progress = PROGRESS_COMPLETE THEN @ + 1 ELSE @ ]
      ELSE a

RECURSIVE NewStanceLegs(_, _, _)
NewStanceLegs(a, l, stepTime) ==
  IF l = getLegCount(a.legs) THEN a
  ELSE NewStanceLegs(NewStanceLeg(a, l, stepTime), l + 1, stepTime)

stepToNewStance(pc, legs, stepTime) ==
  LET a == NewStanceLegs([ pc |-> pc, legs |-> legs, progress |-> 0 ], 0, stepTime)
      progress == a.progress \div 2 + pc.current_group * 50
      leg_count == getLegCount(legs)
      group == a.pc.legs_completed_step \div (leg_count \div 2)
      allDone == a.pc.legs_completed_step = leg_count
  IN  [ pc |-> [ a.pc EXCEPT !.current_group = IF allDone THEN 0 ELSE group,
                             !.legs_completed_step = IF allDone THEN 0 ELSE @,
                             !.reset_transition_sequence = TRUE ],
        legs |-> a.legs,
        return |-> progress ]


\* --------------------------------------------------- the sequencer's run
\* The caller runs a sequence to completion before starting another:
\* StartUp from the packed posture, then ShutDown, or a change of stance
\* (stepToNewStance) followed by ShutDown, from the unpacked one; after
\* ros::shutdown() nothing is called any more.
\* the caller may call operation `op` next
MayCall(op) ==
  /\ ~sequencer.fatal
  /\ \/ sequencer.calling = op
     \/ /\ sequencer.calling = "NONE"
        /\ sequencer.operations <
             (IF sequencer.workspace = "any" THEN MaxOperations ELSE MaxOperations + 1)

\* the proximities applyIK may report to the legs on the next call
ProximityReports ==
  IF sequencer.workspace = "clear" /\ sequencer.operations <= 1
  THEN { [ l \in PoserLegs |-> MaxProximity ] }
  ELSE [ PoserLegs -> ProximityLevels ]

Started(op) == IF sequencer.calling = op THEN sequencer.operations
               ELSE sequencer.operations + 1

WalkParked ==
  /\ state = "STOPPED" /\ legsInCorrectPhase = 0 /\ legsCompletedFirstStep = 0
  /\ legSteppers = << >> /\ localCentreVelocity = 0 /\ angularVelocity = 0
  /\ phaseLength = 0 /\ swingStart = 0 /\ swingEnd = 0 /\ prev = << >>
  /\ startTicks = 0 /\ stopTicks = 0 /\ decayTicks = 0 /\ aborted = FALSE

InitPoser ==
  [ transition_step |-> 0, transition_step_count |-> 0, set_target |-> TRUE,
    proximity_alert |-> FALSE, horizontal_transition_complete |-> FALSE,
    vertical_transition_complete |-> FALSE, first_sequence_execution |-> TRUE,
    reset_transition_sequence |-> TRUE, legs_completed_step |-> 0,
    current_group |-> 0 ]

InitLegPoser(tip) ==
  [ tip |-> tip, origin_tip_position |-> tip, target_tip_position |-> tip,
    master_iteration_count |-> 0, first_iteration |-> TRUE,
    leg_completed_step |-> FALSE, transition_positions |-> << >> ]

NoCall ==
  [ called |-> FALSE, sequence |-> "NONE", return |-> 0, fatal |-> FALSE,
    k |-> 0, next |-> 0, first |-> TRUE, final |-> FALSE,
    horizontal |-> FALSE, vertical |-> FALSE, stepped |-> FALSE,
    alerted |-> FALSE, stepAlert |-> FALSE, wasReset |-> FALSE,
    ik |-> << >>, finished |-> << >>,
    entry |-> << >>, targets |-> << >>, before |-> << >>, loads |-> { } ]

SeqInit ==
  /\ WalkParked
  /\ PosingParked
  /\ TipCurvesParked
  /\ poser = InitPoser
  /\ legPosers = [ l \in PoserLegs |-> InitLegPoser(PackedTipPosition) ]
  /\ \E w \in Workspaces :
       sequencer = [ stepTime |-> StepTime, workspace |-> w, calling |-> "NONE", unpacked |-> FALSE,
                     fatal |-> FALSE, onlyBelow |-> TRUE, stepAlerted |-> FALSE,
                     stepLoads |-> { },
                     operations |-> 0, calls |-> 0, last |-> NoCall ]

\* what a call started from, as far as the properties below look back
Before ==
  [ reset_transition_sequence |-> poser.reset_transition_sequence,
    transition_step |-> poser.transition_step,
    transition_step_count |-> poser.transition_step_count,
    horizontal_transition_complete |-> poser.horizontal_transition_complete,
    vertical_transition_complete |-> poser.vertical_transition_complete,
    first_sequence_execution |-> poser.first_sequence_execution,
    transition_positions |->
      [ l \in PoserLegs |-> legPosers[l].transition_positions ],
    tip |-> [ l \in PoserLegs |-> legPosers[l].tip ],
    \* the leg was already through the step under way (265): its flag is
    \* cleared with set_target_ at the start of a step
    completed |-> [ l \in PoserLegs |->
                     ~poser.set_target /\ legPosers[l].leg_completed_step ],
    current_group |-> poser.current_group ]

Call(sequence, legsBearingLoad, proximity) ==
  \E r \in { executeSequence(poser, legPosers, sequence, legsBearingLoad,
                              proximity, sequencer.stepTime) } :
  LET complete == r.return = PROGRESS_COMPLETE
      below == \A l \in PoserLegs : ExceededWorkspace(proximity[l], TRUE, r.k)
  IN  /\ poser' = r.pc
      /\ legPosers' = r.legs
      /\ sequencer' =
           [ sequencer EXCEPT
               !.calling = IF complete THEN "NONE" ELSE sequence,
               !.operations = Started(sequence),
               !.calls = IF sequencer.calling = sequence THEN @ + 1 ELSE 1,
               !.unpacked = IF complete THEN sequence = "START_UP" ELSE @,
               !.fatal = r.fatal,
               !.onlyBelow = (IF r.wasReset THEN TRUE ELSE @) /\ below,
               !.stepAlerted = IF r.stepped THEN FALSE
                               ELSE (IF r.wasReset THEN FALSE ELSE @) \/ r.alerted,
               !.stepLoads = IF r.stepped \/ ~r.horizontal THEN { }
                             ELSE @ \cup { legsBearingLoad },
               !.last = [ called |-> TRUE, sequence |-> sequence,
                          return |-> r.return, fatal |-> r.fatal,
                          k |-> r.k, next |-> r.next, first |-> r.first,
                          final |-> r.final, horizontal |-> r.horizontal,
                          vertical |-> r.vertical, stepped |-> r.stepped,
                          alerted |-> (IF r.wasReset THEN FALSE
                                       ELSE sequencer.stepAlerted) \/ r.alerted,
                          stepAlert |-> r.stepAlert,
                          wasReset |-> r.wasReset,
                          ik |-> r.ik,
                          finished |-> r.finished,
                          entry |-> IF r.wasReset THEN r.entry ELSE << >>,
                          targets |-> r.targets,
                          before |-> Before,
                          loads |-> IF r.horizontal
                                    THEN sequencer.stepLoads \cup { legsBearingLoad }
                                    ELSE { } ] ]
      /\ UNCHANGED << walkVars, poseVars, curveVars >>

StartUp ==
  /\ MayCall("START_UP") /\ ~sequencer.unpacked
  /\ \E load \in BOOLEAN, proximity \in ProximityReports :
       Call("START_UP", load, proximity)

ShutDown ==
  /\ MayCall("SHUT_DOWN") /\ sequencer.unpacked
  /\ \E load \in BOOLEAN, proximity \in ProximityReports :
       Call("SHUT_DOWN", load, proximity)

NewStance ==
  /\ MayCall("NEW_STANCE") /\ sequencer.unpacked
  /\ \E r \in { stepToNewStance(poser, legPosers, sequencer.stepTime) } :
         /\ poser' = r.pc
         /\ legPosers' = r.legs
         /\ sequencer' = [ sequencer EXCEPT
                             !.calling = IF r.return = PROGRESS_COMPLETE
                                         THEN "NONE" ELSE "NEW_STANCE",
                             !.operations = Started("NEW_STANCE"),
                             !.calls = IF sequencer.calling = "NEW_STANCE"
                                       THEN @ + 1 ELSE 1,
                             !.last = [ NoCall EXCEPT !.sequence = "NEW_STANCE",
                                                      !.return = r.return ] ]
  /\ UNCHANGED << walkVars, poseVars, curveVars >>

SeqNext == StartUp \/ ShutDown \/ NewStance

SeqSpec == SeqInit /\ [][SeqNext]_vars


\* ----------------------------------------------- the sequencer's claims
Last == sequencer.last

\* C12: a StartUp call executes the horizontal transition at an even
\* transition_step and the vertical one at an odd step, with next step
\* k + 1; a ShutDown call the horizontal one at an odd step and the vertical
\* one at an even step, with next step k - 1; every call executes exactly
\* one of the two, and transition_step is left at k unless the call
\* completed the step, and then it is the next step.
C12_StepParity ==
  Last.called =>
    /\ Last.horizontal # Last.vertical
    /\ Last.sequence = "START_UP" =>
         /\ Last.horizontal = (Last.k % 2 = 0)
         /\ Last.next = Last.k + 1
    /\ Last.sequence = "SHUT_DOWN" =>
         /\ Last.horizontal = (Last.k % 2 = 1)
         /\ Last.next = Last.k - 1
    /\ poser.transition_step = (IF Last.stepped THEN Last.next ELSE Last.k)

C12_Witness ==
  /\ Last.called /\ Last.sequence = "SHUT_DOWN"
  /\ Last.horizontal /\ Last.stepped /\ Last.k = 1
  /\ poser.transition_step = 0

\* C13: the step a call works on is final exactly when, on a first
\* execution, one of the two completion flags was set when the call began,
\* or, on a replay, the next step is the target (transition_step_count for
\* StartUp, 0 for ShutDown); the call returns 100 exactly when it completes
\* a final step, and then the two completion flags and
\* first_sequence_execution are clear.
C13_FinalTransition ==
  Last.called =>
    /\ Last.final =
         (IF Last.first
          THEN \/ Last.before.horizontal_transition_complete
               \/ Last.before.vertical_transition_complete
          ELSE Last.next = (IF Last.sequence = "START_UP"
                            THEN Last.before.transition_step_count ELSE 0))
    /\ (Last.return = 100) = (Last.stepped /\ Last.final)
    /\ Last.return = 100 =>
         /\ ~poser.horizontal_transition_complete
         /\ ~poser.vertical_transition_complete
         /\ ~poser.first_sequence_execution

C13_Witness ==
  /\ Last.called /\ Last.first /\ Last.final /\ Last.stepped
  /\ Last.return = 100
  /\ Last.before.horizontal_transition_complete


\* the position of index i (a C++ index) in leg l's cache
Cached(l, i) == legPosers[l].transition_positions[i + 1]
Replayed == Last.called /\ ~Last.first

C15_OnePositionPerStep ==
  Last.called /\ Last.first /\ Last.stepped =>
    \A l \in PoserLegs :
       Len(legPosers[l].transition_positions) = poser.transition_step + 1


\* C16: a call that completes a horizontal transition step during which
\* the proximity test stopped a leg (proximity_alert_ is set when the step
\* completes) does not return 100.
C16_NoCompletionOnAlert ==
  Last.called /\ Last.horizontal /\ Last.stepped /\ Last.stepAlert =>
    Last.return # 100


\* every applyIK of the first execution under way has reported a
\* proximity below the safety factor
NoSafeStepFound == Last.called /\ Last.first /\ sequencer.onlyBelow

\* C17: while every IK call of a first StartUp reports a proximity below
\* the safety factor, every completed horizontal step completes with
\* proximity_alert_ set, both completion flags are false after every call,
\* and no call returns 100.
C17_AlertEveryStep ==
  NoSafeStepFound =>
    /\ Last.horizontal /\ Last.stepped => Last.stepAlert
    /\ ~poser.horizontal_transition_complete
    /\ ~poser.vertical_transition_complete
    /\ Last.return = -1

C17_Witness ==
  /\ NoSafeStepFound
  /\ Last.horizontal /\ Last.stepped /\ Last.stepAlert /\ Last.k = 2
  /\ poser.transition_step = 3

\* C18: ros::shutdown() has been called exactly when a call ended with
\* transition_step above TRANSITION_STEP_THRESHOLD, so transition_step
\* never passes the threshold by more than one; a first execution that
\* finds no safe step completes a step at least every second call.
C18_FatalAboveThreshold ==
  /\ sequencer.fatal = (poser.transition_step > TRANSITION_STEP_THRESHOLD)
  /\ poser.transition_step <= TRANSITION_STEP_THRESHOLD + 1
  /\ NoSafeStepFound =>
       /\ sequencer.calls <= 2 * (TRANSITION_STEP_THRESHOLD + 1)
       /\ sequencer.calls <= 2 * poser.transition_step + 1

C18_Witness ==
  /\ NoSafeStepFound /\ Last.fatal
  /\ poser.transition_step = TRANSITION_STEP_THRESHOLD + 1


\* the last call was executeSequence(sequence) entered with
\* reset_transition_sequence_ as given
EnteredWith(sequence, flag) ==
  /\ Last.called /\ Last.sequence = sequence
  /\ Last.before.reset_transition_sequence = flag

\* C19: a ShutDown call leaves reset_transition_sequence_, the
\* transition step, the execution mode and every leg's cache as it found
\* them, whatever the flag; a StartUp call entered with the flag set
\* clears it, starts from transition_step 0 as a first execution, and
\* begins with every leg's cache holding exactly one entry, the tip
\* position the leg had on entry.
C19_ResetOnStartUpOnly ==
  /\ Last.called /\ Last.sequence = "SHUT_DOWN" =>
       /\ ~Last.wasReset
       /\ poser.reset_transition_sequence = Last.before.reset_transition_sequence
       /\ Last.k = Last.before.transition_step
       /\ Last.first = Last.before.first_sequence_execution
       /\ \A l \in PoserLegs :
            legPosers[l].transition_positions = Last.before.transition_positions[l]
  /\ EnteredWith("START_UP", TRUE) =>
       /\ Last.wasReset
       /\ ~Last.entry.pc.reset_transition_sequence
       /\ Last.entry.pc.transition_step = 0
       /\ Last.entry.pc.first_sequence_execution
       /\ \A l \in PoserLegs :
            Last.entry.legs[l].transition_positions = << Last.before.tip[l] >>
       /\ ~poser.reset_transition_sequence
       /\ Last.k = 0 /\ Last.first

\* a StartUp that discards a completed discovery: the flag was set by a
\* change of stance, survived the ShutDown in between, and took effect
C19_Witness ==
  /\ EnteredWith("START_UP", TRUE) /\ Last.wasReset
  /\ ~Last.before.first_sequence_execution
  /\ Last.before.transition_step = 0
  /\ \A l \in PoserLegs : Len(Last.before.transition_positions[l]) > 1


\* the last call completed its sequence: it ran the final transition
\* step to its end
SequenceCompleted == Last.called /\ Last.final /\ Last.stepped

OverRangeSpeeds == { MaxSpeed + 1 }

OverRangeTick ==
  /\ ~aborted
  /\ \E v \in OverRangeSpeeds, c \in CommandedCurvatures, assertionFails \in BOOLEAN :
       IF assertionFails /\ state # "STOPPING"
       THEN /\ aborted' = TRUE
            /\ UNCHANGED << state, legsInCorrectPhase, legsCompletedFirstStep,
                            legSteppers, localCentreVelocity, angularVelocity,
                            phaseLength, swingStart, swingEnd, prev, startTicks,
                            stopTicks, decayTicks >>
       ELSE updateWalk(v, c)
  /\ UNCHANGED << seqVars, poseVars, curveVars >>

RangeNext == Tick \/ OverRangeTick

RangeSpec == Init /\ [][RangeNext]_vars

\* C25: a commanded velocity beyond full speed is clamped silently: the
\* tick completes without a failed assertion, and the speed the tick uses
\* is at most full speed.
C25_ClampedSilently ==
  /\ ~aborted
  /\ prev.ticked => prev.normalSpeed <= MaxSpeed


\* a tick has just run the leg loop in STARTING
StartingTick == prev.ticked /\ state = "STARTING"

\* C28 as stated: in Starting a leg whose phaseOffset lies in
\* [swingStart, swingEnd) is out of SWING and unmarked on every tick
\* before the one its phase reaches swingEnd.
C28_AsStated ==
  StartingTick =>
    \A l \in Legs :
      /\ Leg(l).phaseOffset >= swingStart /\ Leg(l).phaseOffset < swingEnd
      /\ startTicks < swingEnd - Leg(l).phaseOffset + 1
      => ~Leg(l).inCorrectPhase /\ Leg(l).state # "SWING"

\* C28: in Starting a leg whose phaseOffset lies strictly inside the swing
\* window, swingStart < phaseOffset < swingEnd, ends every tick in STANCE
\* and unmarked until the tick its phase reaches swingEnd, and is marked
\* inCorrectPhase on that tick; every other leg, one with phaseOffset =
\* swingStart included, is marked on the first Starting tick (and swings
\* from then on as its phase says); legsInCorrectPhase counts each marked
\* leg once.
C28_ForcedStance ==
  StartingTick =>
    /\ \A l \in Legs :
         IF Leg(l).phaseOffset > swingStart /\ Leg(l).phaseOffset < swingEnd
         THEN /\ Leg(l).inCorrectPhase <=> startTicks >= swingEnd - Leg(l).phaseOffset + 1
              /\ ~Leg(l).inCorrectPhase =>
                   /\ Leg(l).state = "STANCE"
                   /\ Leg(l).phase = Leg(l).phaseOffset + startTicks - 1
                   /\ Leg(l).phase < swingEnd
              /\ Leg(l).inCorrectPhase /\ startTicks = swingEnd - Leg(l).phaseOffset + 1
                   => Leg(l).phase = swingEnd
         ELSE /\ Leg(l).inCorrectPhase
              /\ Leg(l).phaseOffset = swingStart /\ startTicks = 1
                   => Leg(l).state = "SWING"
    /\ legsInCorrectPhase = Cardinality({ l \in Legs : Leg(l).inCorrectPhase })

\* the tick on which a held leg is released, with a leg of phaseOffset
\* swingStart walking beside it
C28_Witness ==
  /\ StartingTick
  /\ \E l \in Legs :
       /\ Leg(l).phaseOffset > swingStart /\ Leg(l).phaseOffset < swingEnd
       /\ Leg(l).inCorrectPhase /\ Leg(l).phase = swingEnd
       /\ startTicks = swingEnd - Leg(l).phaseOffset + 1
       /\ startTicks > 1
  /\ \E l \in Legs : Leg(l).phaseOffset = swingStart


\* a tick has just run the leg loop in STOPPING
StoppingTick == prev.ticked /\ state = "STOPPING"

\* every stride vector is zero on the tick just run
StrideZero == localCentreVelocity = 0 /\ angularVelocity = 0

\* C29: after every tick of Stopping, a leg held in FORCE_STOP got there
\* with a zero stride at phase swingEnd: a leg other than the reference
\* leg is marked inCorrectPhase exactly when it is in FORCE_STOP and then
\* stays at phase swingEnd; the reference leg (0) in FORCE_STOP is unmarked
\* and goes on from swingEnd to the end of the cycle, and is marked only
\* at phase 0, back in STANCE; every unmarked leg has advanced by one;
\* legsInCorrectPhase counts each marked leg once.
C29_ExtraStep ==
  StoppingTick =>
    /\ \A l \in Legs :
         /\ Leg(l).state = "FORCE_STOP" =>
              /\ StrideZero
              /\ IF l = 0
                 THEN Leg(l).phase >= swingEnd /\ ~Leg(l).inCorrectPhase
                 ELSE Leg(l).phase = swingEnd /\ Leg(l).inCorrectPhase
         /\ l # 0 => (Leg(l).inCorrectPhase <=> Leg(l).state = "FORCE_STOP")
         /\ l # 0 /\ Leg(l).inCorrectPhase =>
              prev.phase[l] \in { swingEnd - 1, swingEnd }
         /\ l = 0 /\ Leg(l).inCorrectPhase =>
              Leg(l).phase = 0 /\ Leg(l).state = "STANCE" /\ StrideZero
         /\ ~Leg(l).inCorrectPhase =>
              Leg(l).phase = (prev.phase[l] + 1) % phaseLength
    /\ legsInCorrectPhase = Cardinality({ l \in Legs : Leg(l).inCorrectPhase })

\* the reference leg on its extra lap while another leg waits at swingEnd
C29_Witness ==
  /\ StoppingTick /\ prev.state = "STOPPING"
  /\ Leg(0).state = "FORCE_STOP" /\ Leg(0).phase > swingEnd
  /\ \E l \in Legs :
       /\ l # 0 /\ Leg(l).inCorrectPhase
       /\ Leg(l).phase = swingEnd /\ prev.phase[l] = swingEnd
  /\ \E l \in Legs : l # 0 /\ ~Leg(l).inCorrectPhase


\* the last call ran a horizontal step in which every call so far found
\* legsBearingLoad() as given
HorizontalStepUnder(load) ==
  Last.called /\ Last.horizontal /\ Last.loads = { load }

\* the leg's tip was moved by the last call
Moved(l) == legPosers[l].tip # Last.before.tip[l]

\* the leg is not part-way through a step
AtRest(l) == legPosers[l].first_iteration

TranslationStep == 2

Axes == 1 .. 3

\* params_.max_translation: x, y, z
MaxTranslation == << 5, 3, 2 >>

\* the default pose's translation the manual pose is reset to (x and y
\* come from the zero-moment offset clamped to max_translation, 1054-1058)
DefaultTranslations == { << 0, 0, 0 >>, << 2, -1, 0 >>, << 5, -3, 0 >> }

PoseResetModes ==
  { "NO_RESET", "Z_AND_YAW_RESET", "X_AND_Y_RESET", "PITCH_AND_ROLL_RESET",
    "ALL_RESET", "IMMEDIATE_ALL_RESET" }

\* the translation velocity inputs a tick may find: none, full speed and
\* twice full speed along an axis, and diagonals
TranslationVelocityInputs ==
  { << 0, 0, 0 >>,
    << 2, 0, 0 >>, << -2, 0, 0 >>, << 0, 2, 0 >>, << 0, -2, 0 >>,
    << 0, 0, 2 >>, << 0, 0, -2 >>,
    << 4, 0, 0 >>, << 0, -4, 0 >>, << 0, 0, 4 >>,
    << 2, 2, 2 >>, << -2, -2, -2 >>, << 1, -1, 1 >> }

\* sign() of the standard includes: -1 below zero, 1 otherwise
sign(x) == IF x < 0 THEN -1 ELSE 1

\* the largest integer whose square is at most n
ISqrt(n) == CHOOSE r \in 0 .. n : r * r <= n /\ (r + 1) * (r + 1) > n

NormSquared(v) == v[1] * v[1] + v[2] * v[2] + v[3] * v[3]

\* clamped(vector, magnitude): a vector longer than magnitude is scaled
\* down to it
clamped(v, magnitude) ==
  IF NormSquared(v) > magnitude * magnitude
  THEN [ i \in Axes |-> CDiv(v[i] * magnitude, ISqrt(NormSquared(v))) ]
  ELSE v

\* ------------------------------------------- updateManualPose (699-843)
\* the translation axes a reset mode acts on (719-753)
ResetTranslation(mode) ==
  CASE mode = "Z_AND_YAW_RESET" -> { 3 }
    [] mode = "X_AND_Y_RESET"   -> { 1, 2 }
    [] mode = "ALL_RESET"       -> { 1, 2, 3 }
    [] OTHER                    -> { }

\* the velocity input after the override of the reset mode (756-779)
OverrideVelocityInput(input, position, default, reset) ==
  [ i \in Axes |->
      IF i \in reset /\ position[i] < default[i] THEN TranslationStep
      ELSE IF i \in reset /\ position[i] > default[i] THEN 0 - TranslationStep
      ELSE input[i] ]

\* the limit of an axis (796-803): the default value under a reset if it
\* is strictly inside the limits, else the limit on the side of the motion
TranslationLimit_MaxOnly(i, velocity, default, reset) ==
  sign(velocity) * MaxTranslation[i]

TranslationLimit(i, velocity, default, reset) ==
  IF i \in reset /\ default < MaxTranslation[i] /\ default > 0 - MaxTranslation[i]
  THEN default
  ELSE sign(velocity) * MaxTranslation[i]

\* the velocity of an axis cut back so that the position stops at the
\* limit (805-815); velocities are per tick
LimitedVelocity_Unlimited(position, velocity, limit) == velocity

LimitedVelocity(position, velocity, limit) ==
  IF \/ sign(velocity) > 0 /\ position + velocity > limit
     \/ ~(sign(velocity) > 0) /\ position + velocity < limit
  THEN limit - position
  ELSE velocity

\* the manual pose's translation after the call
updateManualPose(translation_position, default_translation, input, mode) ==
  IF mode = "IMMEDIATE_ALL_RESET" THEN default_translation
  ELSE LET reset == ResetTranslation(mode)
           translation_velocity ==
             clamped(OverrideVelocityInput(input, translation_position,
                                           default_translation, reset),
                     TranslationStep)
       IN  [ i \in Axes |->
               translation_position[i] +
                 LimitedVelocity(translation_position[i], translation_velocity[i],
                                 TranslationLimit(i, translation_velocity[i],
                                                  default_translation[i], reset)) ]

\* ----------------------------------------------- the manual pose alone
\* The manual pose starts at identity; the default pose is the one its
\* last update left.  Every tick the caller has set a velocity input and
\* a reset mode.
NoManualCall ==
  [ called |-> FALSE, from |-> << 0, 0, 0 >>, mode |-> "NO_RESET" ]

ManualInit ==
  /\ WalkParked
  /\ SequencerParked
  /\ BodyPosingParked /\ AutoPosingParked /\ ImuPosingParked
  /\ JointPosingParked
  /\ TipCurvesParked
  /\ \E d \in DefaultTranslations :
       manualPosing = [ manual_pose |-> << 0, 0, 0 >>, default_pose |-> d,
                        last |-> NoManualCall ]

UpdateManualPose ==
  \E input \in TranslationVelocityInputs, mode \in PoseResetModes :
    /\ manualPosing' =
         [ manualPosing EXCEPT
             !.manual_pose = updateManualPose(@, manualPosing.default_pose,
                                              input, mode),
             !.last = [ called |-> TRUE, from |-> manualPosing.manual_pose,
                        mode |-> mode ] ]
    /\ UNCHANGED << walkVars, seqVars, bodyPosing, autoPosing, imuPosing,
                   jointPosing, curveVars >>

ManualNext == UpdateManualPose

ManualSpec == ManualInit /\ [][ManualNext]_vars

\* C22 as stated: every translation axis of the manual pose stays within
\* its limits, and no call moves an axis by more than a full-speed step.
C22_AsStated ==
  \A i \in Axes :
    /\ Abs(manualPosing.manual_pose[i]) <= MaxTranslation[i]
    /\ manualPosing.last.called =>
         Abs(manualPosing.manual_pose[i] - manualPosing.last.from[i])
           <= TranslationStep

\* C22: every translation axis of the manual pose stays within its
\* limits after any calls, and a call under any reset mode but
\* IMMEDIATE_ALL_RESET moves no axis by more than a full-speed step;
\* a call under IMMEDIATE_ALL_RESET leaves the default pose, however far.
C22_WithinLimits ==
  /\ \A i \in Axes : Abs(manualPosing.manual_pose[i]) <= MaxTranslation[i]
  /\ manualPosing.last.called /\ manualPosing.last.mode # "IMMEDIATE_ALL_RESET" =>
       \A i \in Axes :
         Abs(manualPosing.manual_pose[i] - manualPosing.last.from[i])
           <= TranslationStep
  /\ manualPosing.last.called /\ manualPosing.last.mode = "IMMEDIATE_ALL_RESET" =>
       manualPosing.manual_pose = manualPosing.default_pose

\* a command without reset was cut back to end at a limit
C22_Witness ==
  /\ manualPosing.last.called
  /\ manualPosing.last.mode = "NO_RESET"
  /\ \E i \in Axes :
       /\ Abs(manualPosing.manual_pose[i]) = MaxTranslation[i]
       /\ Abs(manualPosing.manual_pose[i] - manualPosing.last.from[i]) = 1


\* ------------------------------------------ updateCurrentPose (652-691)
\* A pose is followed as the list of the contributions added to identity,
\* in the order of the addPose calls (addPose composes rotations, so the
\* order matters).  What an update computes for its pose depends on
\* inputs that are not followed here: it is one of PoseValues.
Contributors == { "manual", "inclination", "impedance", "imu", "auto" }

PoseValues == { 0, 1 }

PoseIdentity == << >>

addPose(pose, name, value) == Append(pose, << name, value >>)

PosingFlags ==
  [ manual_posing : BOOLEAN, inclination_posing : BOOLEAN,
    impedance_control : BOOLEAN, imu_posing : BOOLEAN, auto_posing : BOOLEAN ]

\* the else-if of the automatic posing (686)
AutoPosed_BesideImu(params) == params.auto_posing

AutoPosed(params) == ~params.imu_posing /\ params.auto_posing

\* one "if (enabled) { update(); new_pose = new_pose.addPose(pose); }"
Contribute(s, enabled, name, value) ==
  IF enabled
  THEN [ s EXCEPT !.poses[name] = value,
                  !.new_pose = addPose(@, name, value),
                  !.updated = @ \cup { name } ]
  ELSE s

\* the poses, the pose handed to the model and the updates made, after a
\* call that finds the poses at "poses"; computed[c] is what the update of
\* c computes
updateCurrentPose(params, poses, computed) ==
  LET s0 == [ poses |-> poses, new_pose |-> PoseIdentity, updated |-> { } ]
      s1 == Contribute(s0, params.manual_posing, "manual", computed["manual"])
      s2 == Contribute(s1, params.inclination_posing, "inclination",
                       computed["inclination"])
      s3 == Contribute(s2, params.impedance_control, "impedance",
                       computed["impedance"])
      s4 == Contribute(s3, params.imu_posing, "imu", computed["imu"])
  IN  Contribute(s4, AutoPosed(params), "auto", computed["auto"])

BodyInit ==
  /\ WalkParked
  /\ SequencerParked
  /\ ManualPosingParked /\ AutoPosingParked /\ ImuPosingParked
  /\ JointPosingParked
  /\ TipCurvesParked
  /\ \E params \in PosingFlags :
       bodyPosing = [ params |-> params,
                      poses |-> [ c \in Contributors |-> 0 ],
                      current_pose |-> PoseIdentity,
                      called |-> FALSE,
                      updated |-> { },
                      before |-> [ c \in Contributors |-> 0 ] ]

UpdateCurrentPose ==
  \E computed \in [ Contributors -> PoseValues ] :
    \E r \in { updateCurrentPose(bodyPosing.params, bodyPosing.poses, computed) } :
      /\ bodyPosing' = [ bodyPosing EXCEPT !.poses = r.poses,
                                           !.current_pose = r.new_pose,
                                           !.called = TRUE,
                                           !.updated = r.updated,
                                           !.before = bodyPosing.poses ]
      /\ UNCHANGED << walkVars, seqVars, manualPosing, autoPosing, imuPosing,
                     jointPosing, curveVars >>

BodyNext == UpdateCurrentPose

BodySpec == BodyInit /\ [][BodyNext]_vars

\* the place of a contribution in the order manual, inclination,
\* impedance, then imu or auto
Rank(name) ==
  CASE name = "manual" -> 1 [] name = "inclination" -> 2
    [] name = "impedance" -> 3 [] name = "imu" -> 4 [] name = "auto" -> 5

Added == { bodyPosing.current_pose[i][1] : i \in DOMAIN bodyPosing.current_pose }

\* C21: after every call the current pose is identity with exactly the
\* enabled contributions added once each, in the order manual,
\* inclination, impedance, then imu or auto, each with the value its
\* update has just left; the auto pose is added only when imu posing is
\* off; and a contribution that is not added was not updated and keeps
\* the value it had before the call.
C21_EnabledInOrder ==
  bodyPosing.called =>
    LET p == bodyPosing.params
        cp == bodyPosing.current_pose
    IN  /\ \A i, j \in DOMAIN cp : i < j => Rank(cp[i][1]) < Rank(cp[j][1])
        /\ \A i \in DOMAIN cp : cp[i][2] = bodyPosing.poses[cp[i][1]]
        /\ "manual" \in Added <=> p.manual_posing
        /\ "inclination" \in Added <=> p.inclination_posing
        /\ "impedance" \in Added <=> p.impedance_control
        /\ "imu" \in Added <=> p.imu_posing
        /\ "auto" \in Added <=> p.auto_posing /\ ~p.imu_posing
        /\ bodyPosing.updated = Added
        /\ \A c \in Contributors \ Added :
             bodyPosing.poses[c] = bodyPosing.before[c]

\* imu and auto posing both enabled beside the three others: four
\* contributions added, with new values, and the auto pose left alone
C21_Witness ==
  /\ bodyPosing.called
  /\ bodyPosing.params.imu_posing /\ bodyPosing.params.auto_posing
  /\ Len(bodyPosing.current_pose) = 4
  /\ \A c \in Added : bodyPosing.poses[c] # bodyPosing.before[c]


\* ---------------------------------------------- updateIMUPose (913-952)
\* Angles are whole numbers of a unit; roll and pitch are corrected by
\* the PID, the yaw of the correction is the target's.  The absement is
\* the sum of the position errors (time_delta is one tick), the filtered
\* velocity error is kept in twentieths (0.15 = 3/20), its quotient
\* truncated.
STABILITY_THRESHOLD == 5

RotationPidGains == [ p |-> 2, i |-> 1, d |-> 1 ]

\* the absement is followed up to this size
MaxAbsement == 2

RollPitch == 1 .. 2

\* what a tick may find: the position error (IMU orientation less
\* target), the IMU's angular velocity and the target's yaw
PositionErrors == { e \in [ RollPitch -> -1 .. 1 ] : TRUE }

AngularVelocities ==
  { << 0, 0 >>, << 10, 0 >>, << -10, 0 >>, << 0, 10 >>, << 0, -10 >> }

TargetYaws == { 0, 1 }

\* the low pass filter of the angular velocity (935-937)
LowPass(angular_velocity, rotation_velocity_error) ==
  [ a \in RollPitch |->
      CDiv(3 * angular_velocity[a] + 17 * rotation_velocity_error[a], 20) ]

\* the correction of the PID with the yaw forced (939-943)
RotationCorrection(velocity_error, position_error, absement_error, yaw) ==
  << 0 - (RotationPidGains.d * velocity_error[1]
            + RotationPidGains.p * position_error[1]
            + RotationPidGains.i * absement_error[1]),
     0 - (RotationPidGains.d * velocity_error[2]
            + RotationPidGains.p * position_error[2]
            + RotationPidGains.i * absement_error[2]),
     yaw >>

\* rotation_correction.norm() > STABILITY_THRESHOLD (945)
Unstable_AtThreshold(rotation_correction) ==
  NormSquared(rotation_correction) >= STABILITY_THRESHOLD * STABILITY_THRESHOLD

Unstable(rotation_correction) ==
  NormSquared(rotation_correction) > STABILITY_THRESHOLD * STABILITY_THRESHOLD

\* the PID members, the IMU pose and the shutdown request after the call
updateIMUPose(m, position_error, angular_velocity, yaw) ==
  LET absement == [ a \in RollPitch |->
                      m.rotation_absement_error[a] + position_error[a] ]
      velocity == LowPass(angular_velocity, m.rotation_velocity_error)
      rotation_correction ==
        RotationCorrection(velocity, position_error, absement, yaw)
  IN  [ rotation_absement_error |-> absement,
        rotation_velocity_error |-> velocity,
        imu_pose |-> rotation_correction,
        shutdown |-> m.shutdown \/ Unstable(rotation_correction),
        fatal |-> Unstable(rotation_correction),
        called |-> TRUE ]

ImuInit ==
  /\ WalkParked
  /\ SequencerParked
  /\ ManualPosingParked /\ BodyPosingParked /\ AutoPosingParked
  /\ JointPosingParked
  /\ TipCurvesParked
  /\ imuPosing = [ rotation_absement_error |-> << 0, 0 >>,
                   rotation_velocity_error |-> << 0, 0 >>,
                   imu_pose |-> << 0, 0, 0 >>,
                   shutdown |-> FALSE,   \* ros::shutdown() was called
                   fatal |-> FALSE,      \* ROS_FATAL was logged by the last call
                   called |-> FALSE ]

\* the loop ends once a shutdown is requested
UpdateIMUPose ==
  /\ ~imuPosing.shutdown
  /\ \E e \in PositionErrors, w \in AngularVelocities, yaw \in TargetYaws :
       \E r \in { updateIMUPose(imuPosing, e, w, yaw) } :
         /\ \A a \in RollPitch : Abs(r.rotation_absement_error[a]) <= MaxAbsement
         /\ imuPosing' = r
  /\ UNCHANGED << walkVars, seqVars, manualPosing, bodyPosing, autoPosing,
                 jointPosing, curveVars >>

ImuNext == UpdateIMUPose

ImuSpec == ImuInit /\ [][ImuNext]_vars

\* C26: a call of updateIMUPose logs the fatal error and requests the
\* shutdown exactly when the norm of the rotation correction it has
\* computed is above STABILITY_THRESHOLD; at or below the threshold it
\* does neither.
C26_FatalAboveThreshold ==
  imuPosing.called =>
    /\ imuPosing.fatal <=>
         NormSquared(imuPosing.imu_pose) > STABILITY_THRESHOLD * STABILITY_THRESHOLD
    /\ imuPosing.shutdown <=> imuPosing.fatal

\* a correction above the threshold, with shutdown
C26_Witness ==
  /\ imuPosing.called
  /\ NormSquared(imuPosing.imu_pose) > STABILITY_THRESHOLD * STABILITY_THRESHOLD
  /\ imuPosing.shutdown


\* ---------------------------------------- AutoPoser::updatePose (1088-1170)
\* Of an auto poser the start and end phases and the three members that
\* coordinate its posing period are followed; the pose it returns is
\* followed as far as whether it is identity.
InitAutoPoser(start_phase, end_phase) ==
  [ start_phase |-> start_phase, end_phase |-> end_phase,
    start_check |-> FALSE, end_check |-> << FALSE, FALSE >>,
    allow_posing |-> FALSE, posed |-> FALSE ]

\* the start phase, end phase and phase that are compared (1091-1113)
ComparedPhases(start_phase_, end_phase_, phase, normaliser, phase_length) ==
  LET start0 == start_phase_ * normaliser
      end0 == end_phase_ * normaliser
      start == IF start0 = 0 THEN phase_length ELSE start0
      end == IF end0 = 0 THEN phase_length ELSE end0
  IN  IF start > end
      THEN [ start_phase |-> start, end_phase |-> end + phase_length,
             phase |-> IF phase < start THEN phase + phase_length ELSE phase ]
      ELSE [ start_phase |-> start, end_phase |-> end, phase |-> phase ]

updatePose(ap, master_phase, posing_state, sync_with_step_cycle, normaliser, phase_length) ==
  LET c == ComparedPhases(ap.start_phase, ap.end_phase, master_phase,
                          normaliser, phase_length)
      start_check == \/ ~sync_with_step_cycle
                     \/ (~ap.start_check /\ posing_state = "POSING"
                           /\ c.phase = c.start_phase)
      first == ap.end_check[1]
                 \/ (posing_state = "STOP_POSING" /\ c.phase = c.start_phase)
      second == ap.end_check[2]
                  \/ (posing_state = "STOP_POSING" /\ c.phase = c.end_phase /\ first)
      allow == IF ~ap.allow_posing /\ start_check THEN TRUE
               ELSE IF ap.allow_posing /\ sync_with_step_cycle /\ first /\ second
               THEN FALSE
               ELSE ap.allow_posing
  IN  [ ap EXCEPT
          !.start_check = IF ap.allow_posing /\ ~allow THEN FALSE ELSE start_check,
          !.end_check = IF ~ap.allow_posing /\ allow THEN << FALSE, FALSE >>
                        ELSE << first, second >>,
          !.allow_posing = allow,
          !.posed = c.phase >= c.start_phase /\ c.phase < c.end_phase /\ allow ]

\* -------------------------- PoseController::updateAutoPose (852-907)
\* the auto posing state the auto posers are given (857-866)
PosingStateFor(auto_posing_state, walk_state, zero_body_velocity) ==
  IF walk_state = "STARTING" \/ walk_state = "MOVING" THEN "POSING"
  ELSE IF (zero_body_velocity /\ walk_state = "STOPPING") \/ walk_state = "STOPPED"
  THEN "STOP_POSING"
  ELSE auto_posing_state

updateAutoPose(a, walk_state, zero_body_velocity, leg_phase, phase_length) ==
  LET posing_state ==
        PosingStateFor(a.auto_posing_state, walk_state, zero_body_velocity)
      sync_with_step_cycle == a.pose_frequency = -1
      master_phase == IF sync_with_step_cycle THEN leg_phase + 1 ELSE a.pose_phase
      posers == [ i \in DOMAIN a.auto_posers |->
                    updatePose(a.auto_posers[i], master_phase, posing_state,
                               sync_with_step_cycle, a.normaliser, phase_length) ]
  IN  [ auto_posing_state |->
          IF \A i \in DOMAIN posers : ~posers[i].allow_posing
          THEN "POSING_COMPLETE" ELSE posing_state,
        pose_phase |-> IF sync_with_step_cycle THEN a.pose_phase
                       ELSE (a.pose_phase + 1) % phase_length,
        auto_posers |-> posers,
        given |-> posing_state,
        master_phase |-> master_phase ]

\* ------------------------------------- auto posing beside the walk cycle
\* Every tick the auto pose is updated from the reference leg's walk
\* state, stride and phase, and then the walk cycle is advanced (the
\* master phase is the leg's phase plus one for that reason, 873).  One
\* gait is taken, with its legs in step or in two tripods.
ReferenceLeg == 0

AutoPoseGait == << 2, 2 >>

AutoPoseOffsetMultipliers == { << 0, 0, 0, 0, 0, 0 >>, << 0, 1, 1, 0, 0, 1 >> }

\* the auto posers of a configuration, as << start_phase, end_phase >>: one
\* inside the cycle, one across its end, one from phase 0, and two together
AutoPoserContainers ==
  { << << 1, 3 >> >>, << << 3, 1 >> >>, << << 0, 2 >> >>,
    << << 1, 2 >>, << 2, 0 >> >> }

\* pose_frequency: -1 synchronises the posing with the step cycle
PoseFrequencies == { -1, 1 }

\* what the current run of calls in STOP_POSING has shown an auto poser:
\* its start phase, and its end phase at or after that
NothingObserved == [ start |-> FALSE, end |-> FALSE ]

SamePhase(a, b) == (a - b) % phaseLength = 0

Observe(o, ap, given, master_phase, normaliser) ==
  IF given # "STOP_POSING" THEN NothingObserved
  ELSE LET start == o.start \/ SamePhase(master_phase, ap.start_phase * normaliser)
       IN  [ start |-> start,
             end |-> o.end \/ (start /\ SamePhase(master_phase,
                                                   ap.end_phase * normaliser)) ]

AutoInit ==
  /\ \E om \in AutoPoseOffsetMultipliers : InitWalk(AutoPoseGait, 1, 1, om)
  /\ SequencerParked
  /\ ManualPosingParked /\ BodyPosingParked /\ ImuPosingParked
  /\ JointPosingParked
  /\ TipCurvesParked
  /\ \E container \in AutoPoserContainers, frequency \in PoseFrequencies :
       autoPosing =
         [ pose_frequency |-> frequency,
           normaliser |-> 1,
           pose_phase |-> 0,
           auto_posing_state |-> "POSING_COMPLETE",
           auto_posers |-> [ i \in DOMAIN container |->
                               InitAutoPoser(container[i][1], container[i][2]) ],
           observed |-> [ i \in DOMAIN container |-> NothingObserved ],
           last |-> [ called |-> FALSE, given |-> "POSING_COMPLETE",
                      master_phase |-> 0,
                      allowed |-> [ i \in DOMAIN container |-> FALSE ] ] ]

AutoTick ==
  /\ \E r \in { updateAutoPose(autoPosing, state, StrideZero,
                               legSteppers[ReferenceLeg].phase, phaseLength) } :
       autoPosing' =
         [ autoPosing EXCEPT
             !.auto_posing_state = r.auto_posing_state,
             !.pose_phase = r.pose_phase,
             !.auto_posers = r.auto_posers,
             !.observed = [ i \in DOMAIN @ |->
                              Observe(@[i], autoPosing.auto_posers[i], r.given,
                                      r.master_phase, autoPosing.normaliser) ],
             !.last = [ called |-> TRUE, given |-> r.given,
                        master_phase |-> r.master_phase,
                        allowed |-> [ i \in DOMAIN autoPosing.auto_posers |->
                                        autoPosing.auto_posers[i].allow_posing ] ] ]
  /\ \E v \in CommandedSpeeds, c \in CommandedCurvatures : updateWalk(v, c)
  /\ UNCHANGED << seqVars, manualPosing, bodyPosing, imuPosing, jointPosing,
                 curveVars >>

AutoNext == AutoTick

AutoSpec == AutoInit /\ [][AutoNext]_vars

Synchronised == autoPosing.pose_frequency = -1

PosingStarted(i) ==
  autoPosing.last.called /\ ~autoPosing.last.allowed[i]
    /\ autoPosing.auto_posers[i].allow_posing

PosingEnded(i) ==
  autoPosing.last.called /\ autoPosing.last.allowed[i]
    /\ ~autoPosing.auto_posers[i].allow_posing

\* C23: with the posing synchronised to the step cycle, an auto poser's
\* allow_posing turns true only in a call that gives it the state POSING
\* at its start phase, and turns false only in a call by which the
\* current run of calls in STOP_POSING has shown it its start phase and,
\* at or after that, its end phase.
C23_FullCycleWhileStopPosing ==
  Synchronised =>
    \A i \in DOMAIN autoPosing.auto_posers :
      /\ PosingStarted(i) =>
           /\ autoPosing.last.given = "POSING"
           /\ SamePhase(autoPosing.last.master_phase,
                        autoPosing.auto_posers[i].start_phase * autoPosing.normaliser)
      /\ PosingEnded(i) =>
           /\ autoPosing.last.given = "STOP_POSING"
           /\ autoPosing.observed[i].start
           /\ autoPosing.observed[i].end


\* ------------------------------ calculateDeltaT, updatePosition (65-145)
\* roundToInt of the quotient num/den of two naturals: to the nearest
\* integer, a half upwards
roundToInt(num, den) == (2 * num + den) \div (2 * den)

\* mod() of the standard includes: the remainder in 0 .. b-1
mod(a, b) == a % b

\* numIterations of calculateDeltaT (67); setGaitParams has set
\* stepFrequency to 1/(phaseLength*timeDelta) (329), so the quotient
\* (length/phaseLength)/(stepFrequency*timeDelta)/2 is
\* (length*phaseLength)/(2*phaseLength)
numIterations(length) ==
  roundToInt(length * phaseLength, 2 * phaseLength) * 2

\* the time delta as the fraction num/den (68-75); den = 0 is the
\* division by zero
calculateDeltaT(legState, length) ==
  [ num |-> IF legState = "SWING" THEN 2 ELSE 1, den |-> numIterations(length) ]

\* where the stance of a leg began (142): at its phase offset until its
\* first step is completed
StanceStartOf(leg) == IF leg.completedFirstStep THEN swingEnd ELSE leg.phaseOffset

\* the lengths of the sub-phases updatePosition derives iterations for:
\* the swing (89) and, in its second half, the next stance (113-116);
\* the stance (142-145)
SubPhaseLengths(leg) ==
  IF leg.state = "SWING"
  THEN LET swingLength == swingEnd - swingStart
           iteration == leg.phase - swingStart + 1
       IN  IF iteration <= numIterations(swingLength) \div 2
           THEN { << "SWING", swingLength >> }
           ELSE { << "SWING", swingLength >>,
                  << "STANCE", mod(swingStart - swingEnd, phaseLength) >> }
  ELSE IF leg.state = "STANCE"
  THEN { << "STANCE", mod(swingStart - StanceStartOf(leg), phaseLength) >> }
  ELSE { }

\* the time deltas of the last update of a leg's position (561: no update
\* while STOPPED)
DeltaTs(l) ==
  IF prev.ticked /\ state # "STOPPED"
  THEN { calculateDeltaT(s[1], s[2]) : s \in SubPhaseLengths(legSteppers[l]) }
  ELSE { }

\* C24: in every update of a leg's position in STARTING, MOVING or
\* STOPPING the number of iterations of the swing or stance it is in (and
\* of the next stance, in the second half of a swing) is even and above
\* zero, so that each time delta is above 0 and at most 1 and nothing is
\* divided by zero; this includes the shortened first stance, which
\* begins at the leg's phase offset.
C24_IterationsEvenPositive ==
  \A l \in Legs : \A d \in DeltaTs(l) :
    /\ d.den > 0
    /\ d.den % 2 = 0
    /\ d.num > 0 /\ d.num <= d.den

\* a leg in its shortened first stance, of odd length, is updated
C24_Witness ==
  /\ prev.ticked /\ state = "STARTING"
  /\ \E l \in Legs :
       /\ legSteppers[l].state = "STANCE"
       /\ ~legSteppers[l].completedFirstStep
       /\ mod(swingStart - legSteppers[l].phaseOffset, phaseLength) % 2 = 1
       /\ DeltaTs(l) # { }


\* ------ generateSwingControlNodes, generateStanceControlNodes (6-60)
\* Positions are << x, y, z >> in whole units, chosen so that every
\* quotient below is exact.  The default tip position is the origin of the
\* coordinates.
defaultTipPosition == << 0, 0, 0 >>

\* walker->stepClearance * walker->maximumBodyHeight
swingHeight == 64

\* walker->stepDepth * walker->maximumBodyHeight
stanceDepth == 32

VAdd(a, b) == << a[1] + b[1], a[2] + b[2], a[3] + b[3] >>
VSub(a, b) == << a[1] - b[1], a[2] - b[2], a[3] - b[3] >>
VTimes(num, den, a) ==
  << CDiv(num * a[1], den), CDiv(num * a[2], den), CDiv(num * a[3], den) >>
WithZ(a, z) == << a[1], a[2], z >>

\* the five control nodes of the stance curve, as nodes[1] .. nodes[5] for
\* stanceControlNodes[0] .. [4]
generateStanceControlNodes(stanceOriginTipPosition, strideVector) ==
  LET n0 == stanceOriginTipPosition
      n4 == VSub(stanceOriginTipPosition, strideVector)
      n1 == VAdd(n4, VTimes(3, 4, VSub(n0, n4)))
      n2 == VAdd(n4, VTimes(1, 2, VSub(n0, n4)))
      n3 == VAdd(n4, VTimes(1, 4, VSub(n0, n4)))
      z0 == stanceOriginTipPosition[3]
      z4 == defaultTipPosition[3]
      z2 == z0 - stanceDepth
      z1 == CDiv(z0 + z2, 2)
      z3 == CDiv(z4 + z2, 2)
  IN  << WithZ(n0, z0), WithZ(n1, z1), WithZ(n2, z2), WithZ(n3, z3),
         WithZ(n4, z4) >>

\* node 3 of the primary swing curve, horizontally (18)
PrimaryNode3_AtEnd(node2, node4) == node4

PrimaryNode3(node2, node4) == VTimes(1, 2, VAdd(node2, node4))

\* the control nodes of the two swing curves; bezierScaler is
\* stanceDeltaT/swingDeltaT, the fraction s[1]/s[2]
generateSwingControlNodes(swingOriginTipPosition, stance, s) ==
  LET a0 == swingOriginTipPosition
      a1 == VAdd(a0, VTimes(s[1], s[2], VSub(stance[5], stance[4])))
      a2 == VAdd(a1, VSub(a1, a0))
      a4 == defaultTipPosition
      a3 == PrimaryNode3(a2, a4)
      b0 == a4
      b1 == VAdd(b0, VSub(b0, a3))
      b3 == VAdd(stance[1], VTimes(s[1], s[2], VSub(stance[1], stance[2])))
      b2 == VSub(VAdd(b3, b3), stance[1])
      b4 == stance[1]
      az0 == swingOriginTipPosition[3]
      az1 == az0 + CDiv(s[1] * (stance[5][3] - stance[4][3]), s[2])
      az4 == az0 + swingHeight
      az2 == az0 + CDiv(2 * s[1] * (stance[5][3] - stance[4][3]), s[2])
      az3 == az4
      bz0 == az4
      bz1 == bz0
      bz2 == stance[1][3] + CDiv(2 * s[1] * (stance[1][3] - stance[2][3]), s[2])
      bz3 == stance[1][3] + CDiv(s[1] * (stance[1][3] - stance[2][3]), s[2])
      bz4 == stance[1][3]
  IN  [ swing1 |-> << WithZ(a0, az0), WithZ(a1, az1), WithZ(a2, az2),
                      WithZ(a3, az3), WithZ(a4, az4) >>,
        swing2 |-> << WithZ(b0, bz0), WithZ(b1, bz1), WithZ(b2, bz2),
                      WithZ(b3, bz3), WithZ(b4, bz4) >> ]

\* ------------------------------- the curves of one leg (updatePosition)
\* A leg's position update generates the stance nodes in a stance
\* (142-164), the swing nodes from the stance nodes it has in the first
\* half of a swing (104-108), and in the second half the nodes of the next
\* stance, which starts half a stride ahead of the default tip position,
\* and from them the swing nodes (110-122).  The tip position a curve
\* starts from is where the tip is then: it is one of TipPositions.
StrideVectors ==
  { << 0, 0, 0 >>, << 64, 0, 0 >>, << -64, 64, 0 >> }

\* half a stride behind the default tip position, at its height or off it
TipPositions ==
  { VSub(defaultTipPosition, VTimes(1, 2, v)) : v \in StrideVectors }
    \cup { << -32, 0, 32 >> }

\* stanceDeltaT/swingDeltaT as << numerator, denominator >>
BezierScalers == { << 1, 1 >>, << 1, 4 >> }

ZeroNodes == [ i \in 1 .. 5 |-> << 0, 0, 0 >> ]

CurveInit ==
  /\ WalkParked
  /\ SequencerParked
  /\ PosingParked
  /\ \E s \in BezierScalers :
       tipCurves = [ bezierScaler |-> s,
                     strideVector |-> << 0, 0, 0 >>,
                     swingOriginTipPosition |-> defaultTipPosition,
                     stanceOriginTipPosition |-> defaultTipPosition,
                     stanceControlNodes |-> ZeroNodes,
                     swing1ControlNodes |-> ZeroNodes,
                     swing2ControlNodes |-> ZeroNodes,
                     generated |-> "NONE" ]

\* a tick in stance: at its first iteration the stance starts where the
\* tip is
UpdateStance ==
  /\ \E strideVector \in StrideVectors, first \in BOOLEAN :
       \E origin \in IF first /\ tipCurves.generated # "STANCE"
                     THEN TipPositions
                     ELSE { tipCurves.stanceOriginTipPosition } :
         tipCurves' =
           [ tipCurves EXCEPT
               !.strideVector = strideVector,
               !.stanceOriginTipPosition = origin,
               !.stanceControlNodes = generateStanceControlNodes(origin, strideVector),
               !.generated = "STANCE" ]
  /\ UNCHANGED << walkVars, seqVars, poseVars >>

\* a tick in the first half of a swing: at its first iteration the swing
\* starts where the tip is
UpdateSwingPrimary ==
  /\ tipCurves.generated \in { "STANCE", "PRIMARY" }
  /\ \E strideVector \in StrideVectors :
       \E origin \in IF tipCurves.generated = "STANCE"
                     THEN TipPositions \cup { tipCurves.stanceControlNodes[5] }
                     ELSE { tipCurves.swingOriginTipPosition } :
         \E r \in { generateSwingControlNodes(origin, tipCurves.stanceControlNodes,
                                              tipCurves.bezierScaler) } :
           tipCurves' =
             [ tipCurves EXCEPT
                 !.strideVector = strideVector,
                 !.swingOriginTipPosition = origin,
                 !.swing1ControlNodes = r.swing1,
                 !.swing2ControlNodes = r.swing2,
                 !.generated = "PRIMARY" ]
  /\ UNCHANGED << walkVars, seqVars, poseVars >>

\* a tick in the second half of a swing
UpdateSwingSecondary ==
  /\ tipCurves.generated \in { "PRIMARY", "SECONDARY" }
  /\ \E strideVector \in StrideVectors :
       \E origin \in { VAdd(defaultTipPosition, VTimes(1, 2, strideVector)) } :
         \E stance \in { generateStanceControlNodes(origin, strideVector) } :
           \E r \in { generateSwingControlNodes(tipCurves.swingOriginTipPosition,
                                                stance, tipCurves.bezierScaler) } :
             tipCurves' =
               [ tipCurves EXCEPT
                   !.strideVector = strideVector,
                   !.stanceOriginTipPosition = origin,
                   !.stanceControlNodes = stance,
                   !.swing1ControlNodes = r.swing1,
                   !.swing2ControlNodes = r.swing2,
                   !.generated = "SECONDARY" ]
  /\ UNCHANGED << walkVars, seqVars, poseVars >>

CurveNext == UpdateStance \/ UpdateSwingPrimary \/ UpdateSwingSecondary

CurveSpec == CurveInit /\ [][CurveNext]_vars


\* differences of the control nodes at the ends of a curve: the first and
\* second derivatives of a quartic Bezier curve there are 4 and 12 times
\* these
FirstAtStart(n) == VSub(n[2], n[1])
FirstAtEnd(n) == VSub(n[5], n[4])
SecondAtStart(n) == VAdd(VSub(n[3], VTimes(2, 1, n[2])), n[1])
SecondAtEnd(n) == VAdd(VSub(n[5], VTimes(2, 1, n[4])), n[3])

\* a first difference d of a swing curve and e of the stance curve give
\* the same change per tick: swingDeltaT * d = stanceDeltaT * e; second
\* differences with the squares
SameFirst(d, e) ==
  VTimes(tipCurves.bezierScaler[2], 1, d) = VTimes(tipCurves.bezierScaler[1], 1, e)

SameSecond(d, e) ==
  VTimes(tipCurves.bezierScaler[2] * tipCurves.bezierScaler[2], 1, d)
    = VTimes(tipCurves.bezierScaler[1] * tipCurves.bezierScaler[1], 1, e)

InPrimary == tipCurves.generated = "PRIMARY"
InSecondary == tipCurves.generated = "SECONDARY"

\* the swing started half a stride behind the default tip position, at
\* its height: where a stance of the present stride ends
SymmetricSwing ==
  tipCurves.swingOriginTipPosition =
    VSub(defaultTipPosition, VTimes(1, 2, tipCurves.strideVector))

\* C27 as stated: whatever the stride vector and the swing origin, the
\* nodes give the same position, first difference and second difference
\* on both sides of each of the three seams, in all components.
C27_AsStated ==
  /\ InPrimary =>
       /\ tipCurves.swing1ControlNodes[1] = tipCurves.stanceControlNodes[5]
       /\ SameFirst(FirstAtStart(tipCurves.swing1ControlNodes),
                    FirstAtEnd(tipCurves.stanceControlNodes))
       /\ SameSecond(SecondAtStart(tipCurves.swing1ControlNodes),
                     SecondAtEnd(tipCurves.stanceControlNodes))
  /\ InSecondary =>
       /\ tipCurves.swing2ControlNodes[1] = tipCurves.swing1ControlNodes[5]
       /\ FirstAtStart(tipCurves.swing2ControlNodes)
            = FirstAtEnd(tipCurves.swing1ControlNodes)
       /\ SecondAtStart(tipCurves.swing2ControlNodes)
            = SecondAtEnd(tipCurves.swing1ControlNodes)
       /\ tipCurves.stanceControlNodes[1] = tipCurves.swing2ControlNodes[5]
       /\ SameFirst(FirstAtEnd(tipCurves.swing2ControlNodes),
                    FirstAtStart(tipCurves.stanceControlNodes))
       /\ SameSecond(SecondAtEnd(tipCurves.swing2ControlNodes),
                     SecondAtStart(tipCurves.stanceControlNodes))

\* C27: at the stance-to-primary seam the first and second differences
\* agree for every stride vector and swing origin, and the positions agree
\* when the swing starts at the stance's last node; at the
\* primary-to-secondary seam position and first difference always agree,
\* and the second difference agrees exactly when the swing started half a
\* stride behind the default tip position at its height; at the
\* secondary-to-stance seam position, first and second difference always
\* agree; in all components.
C27_SeamsContinuous ==
  /\ InPrimary =>
       /\ tipCurves.swingOriginTipPosition = tipCurves.stanceControlNodes[5] =>
            tipCurves.swing1ControlNodes[1] = tipCurves.stanceControlNodes[5]
       /\ SameFirst(FirstAtStart(tipCurves.swing1ControlNodes),
                    FirstAtEnd(tipCurves.stanceControlNodes))
       /\ SameSecond(SecondAtStart(tipCurves.swing1ControlNodes),
                     SecondAtEnd(tipCurves.stanceControlNodes))
  /\ InSecondary =>
       /\ tipCurves.swing2ControlNodes[1] = tipCurves.swing1ControlNodes[5]
       /\ FirstAtStart(tipCurves.swing2ControlNodes)
            = FirstAtEnd(tipCurves.swing1ControlNodes)
       /\ SymmetricSwing <=>
            SecondAtStart(tipCurves.swing2ControlNodes)
              = SecondAtEnd(tipCurves.swing1ControlNodes)
       /\ tipCurves.stanceControlNodes[1] = tipCurves.swing2ControlNodes[5]
       /\ SameFirst(FirstAtEnd(tipCurves.swing2ControlNodes),
                    FirstAtStart(tipCurves.stanceControlNodes))
       /\ SameSecond(SecondAtEnd(tipCurves.swing2ControlNodes),
                     SecondAtStart(tipCurves.stanceControlNodes))

\* the second half of a symmetric swing with a stride
C27_Witness ==
  /\ InSecondary
  /\ SymmetricSwing
  /\ tipCurves.strideVector # << 0, 0, 0 >>

\* ------------------------------------------------- proximity alerts
\* applyIK was called for leg l on the last call and reported a proximity
\* below SAFETY_FACTOR / (k + 1)
BelowSafetyFactor(l) ==
  Last.ik[l] >= 0 /\ Last.ik[l] * (Last.k + 1) < SAFETY_FACTOR

\* applyIK was called for leg l on the last call and the leg was not to be
\* stopped
SteppedFreely(l) ==
  Last.ik[l] >= 0 /\ ~(Last.first /\ BelowSafetyFactor(l))

\* C31: on a call of a first execution that runs a horizontal step, a leg
\* for which applyIK reports a proximity below SAFETY_FACTOR / (k + 1) has
\* its target replaced by its current position, is marked as having
\* completed the step and is ready for a new motion, and proximity_alert_
\* is raised until the step ends; the other stepping legs move on towards
\* their targets; the step in which this happened ends with
\* horizontal_transition_complete_ false (a step without an alert ends with
\* it true, until the sequence completes).  On a replay no leg is stopped
\* and proximity_alert_ stays clear, whatever applyIK reports.
C31_ProximityAlert ==
  Last.called /\ Last.horizontal =>
    /\ \A l \in PoserLegs :
         Last.first /\ BelowSafetyFactor(l) =>
           /\ legPosers[l].target_tip_position = legPosers[l].tip
           /\ legPosers[l].leg_completed_step
           /\ legPosers[l].first_iteration
           /\ Last.alerted
           /\ poser.proximity_alert \/ Last.stepped
    /\ \A l \in PoserLegs :
         SteppedFreely(l) =>
           /\ Moved(l) \/ Last.before.tip[l] = Last.targets[l]
           /\ legPosers[l].leg_completed_step = legPosers[l].first_iteration
    /\ Last.stepped /\ Last.alerted => ~poser.horizontal_transition_complete
    /\ Last.stepped /\ ~Last.alerted /\ Last.return # PROGRESS_COMPLETE =>
         poser.horizontal_transition_complete
    /\ ~Last.first => ~poser.proximity_alert /\ ~Last.alerted

\* one leg of a direct first-execution step is stopped while the other
\* moves on
C31_Witness ==
  /\ Last.called /\ Last.horizontal /\ Last.first /\ ~Last.stepped
  /\ \E l, m \in PoserLegs :
       /\ BelowSafetyFactor(l) /\ legPosers[l].leg_completed_step
       /\ SteppedFreely(m) /\ Moved(m) /\ ~legPosers[m].leg_completed_step
  /\ poser.proximity_alert

\* ---------------------------------------------------- resets to default
\* the axis was under reset on the last call
ResetAxis(i) ==
  manualPosing.last.called /\ i \in ResetTranslation(manualPosing.last.mode)

\* the default value of the axis is strictly inside the limits of the axis
DefaultInside(i) ==
  Abs(manualPosing.default_pose[i]) < MaxTranslation[i]

\* how far the axis is from the default value after (Off) and before
\* (OffBefore) the last call, signed
Off(i) == manualPosing.default_pose[i] - manualPosing.manual_pose[i]
OffBefore(i) == manualPosing.default_pose[i] - manualPosing.last.from[i]

\* C32 as stated, a default value on a limit being within the limits: an
\* axis under reset that was at its default value stays there, whatever
\* the velocity input
C32_AsStated ==
  \A i \in Axes :
    ResetAxis(i) /\ Abs(manualPosing.default_pose[i]) <= MaxTranslation[i] =>
      (OffBefore(i) = 0 => Off(i) = 0)

\* C32: a call under a reset mode that selects an axis whose default value
\* is strictly inside the limits brings the axis closer to the default
\* value, never past it, if it was off it, and leaves it there if it was
\* on it, whatever the velocity input; a call under IMMEDIATE_ALL_RESET
\* leaves the whole pose at the default pose.  With the default value on a
\* limit the axis still comes closer and never passes it.
C32_ResetsToDefault ==
  /\ \A i \in Axes :
       ResetAxis(i) =>
         /\ OffBefore(i) > 0 => Off(i) >= 0 /\ Off(i) < OffBefore(i)
         /\ OffBefore(i) < 0 => Off(i) <= 0 /\ Off(i) > OffBefore(i)
         /\ DefaultInside(i) /\ OffBefore(i) = 0 => Off(i) = 0
  /\ manualPosing.last.called /\ manualPosing.last.mode = "IMMEDIATE_ALL_RESET" =>
       manualPosing.manual_pose = manualPosing.default_pose

\* a reset brought an axis onto a default value other than zero from less
\* than a full step away
C32_Witness ==
  /\ \E i \in Axes :
       /\ ResetAxis(i) /\ DefaultInside(i)
       /\ manualPosing.default_pose[i] # 0
       /\ OffBefore(i) # 0 /\ Abs(OffBefore(i)) < TranslationStep
       /\ Off(i) = 0

\* ------------------------------------- updatePosition: iterations (86-145)
\* the iteration updatePosition derives from the leg's phase and the
\* number of iterations of the curve it evaluates: of the swing (88-91), of
\* the stance (142-147); length is the length of the sub-phase
Iteration(leg) ==
  IF leg.state = "SWING"
  THEN [ iteration |-> leg.phase - swingStart + 1,
         length |-> swingEnd - swingStart,
         num_iterations |-> numIterations(swingEnd - swingStart) ]
  ELSE LET start == StanceStartOf(leg)
           stanceLength == mod(swingStart - start, phaseLength)
       IN  [ iteration |-> mod(leg.phase + (phaseLength - start), phaseLength) + 1,
             length |-> stanceLength,
             num_iterations |-> numIterations(stanceLength) ]

\* the last update moved the leg's tip along a curve (561, 86, 140)
UpdatedPosition(l) ==
  /\ prev.ticked /\ state # "STOPPED"
  /\ legSteppers[l].state \in { "SWING", "STANCE" }

\* the leg is on the last tick of its swing or stance: the next phase
\* begins the other
LastTickOfSubPhase(leg) ==
  IF leg.state = "SWING" THEN leg.phase = swingEnd - 1
  ELSE mod(leg.phase + 1, phaseLength) = swingStart

\* C33: on every update of a leg's position the iteration is within
\* 1 .. num_iterations, and on the last tick of the swing or stance it is
\* num_iterations, so that the curve is evaluated at its final node; this
\* includes the shortened first stance, which begins at the leg's phase
\* offset, and the stance of a leg held in forced stance.
C33_IterationReachesEnd ==
  \A l \in Legs :
    UpdatedPosition(l) =>
      \E r \in { Iteration(legSteppers[l]) } :
        /\ r.iteration >= 1 /\ r.iteration <= r.num_iterations
        /\ LastTickOfSubPhase(legSteppers[l]) => r.iteration = r.num_iterations

\* =====================================================================
\* Moving a leg's joints to a target (LegPoser::moveToJointPosition,
\* src/src/pose_controller.cpp 1207-1286), as packLegs and unpackLegs
\* call it: once per tick with the same target and time until it returns
\* PROGRESS_COMPLETE.
\*
\* Joint positions are whole numbers of a unit; the quotient of the
\* Bezier curve is truncated.  time_to_move / time_delta is given in
\* halves, so that it rounds both ways.
\* =====================================================================
\* time_to_move / time_delta runs over 0, 1/2, 1, .. MaxMoveTime/2
MaxMoveTime == 5
\* JOINT_TOLERANCE in the unit of the joint positions
JOINT_TOLERANCE == 2

Joints == 1 .. 2
\* the target joint positions of a move: the packed and the unpacked
\* positions of the leg's joints, and two more
JointTargets == { << 0, 0 >>, << 4, 2 >>, << 3, 1 >>, << 1, 4 >> }
MoveTimes == 0 .. MaxMoveTime

\* the joint positions a leg may be found in before it is first moved
InitialJointPositions == { << 0, 0 >>, << 4, 3 >> }

\* cubicBezier(control_nodes, t) at t = num / den
cubicBezier(nodes, num, den) ==
  LET s == den - num
  IN  CDiv(nodes[1] * s * s * s + 3 * nodes[2] * s * s * num
             + 3 * nodes[3] * s * num * num + nodes[4] * num * num * num,
           den * den * den)

\* all_joints_at_target (1219-1220)
AllJointsAtTarget(target_joint_positions, current_position) ==
  \A i \in Joints :
    Abs(target_joint_positions[i] - current_position[i]) < JOINT_TOLERANCE

\* num_iterations (1235), time_to_move / time_delta being halves / 2
MoveIterations(halves) == Max(1, roundToInt(halves, 2))

\* the move completes once it has reached the number of iterations (1276)
MoveComplete_Late(master_iteration_count, num_iterations) ==
  master_iteration_count > num_iterations

MoveComplete(master_iteration_count, num_iterations) ==
  master_iteration_count >= num_iterations

\* lp is the leg poser and its leg's joints: first_iteration,
\* master_iteration_count, origin_joint_positions, current_position (the
\* joints' current_position_) and desired_position
moveToJointPosition(lp, target_joint_positions, halves) ==
  LET early == lp.first_iteration
                 /\ AllJointsAtTarget(target_joint_positions, lp.current_position)
      origin == IF lp.first_iteration THEN lp.current_position
                ELSE lp.origin_joint_positions
      num_iterations == MoveIterations(halves)
      master == (IF lp.first_iteration THEN 0 ELSE lp.master_iteration_count) + 1
      desired == [ i \in Joints |->
                     cubicBezier(<< origin[i], origin[i],
                                    target_joint_positions[i],
                                    target_joint_positions[i] >>,
                                 master, num_iterations) ]
      progress == CDiv((master - 1) * PROGRESS_COMPLETE, num_iterations)
      complete == MoveComplete(master, num_iterations)
  IN  IF early
      THEN [ leg |-> [ lp EXCEPT !.origin_joint_positions = origin ],
             return |-> PROGRESS_COMPLETE ]
      ELSE [ leg |-> [ lp EXCEPT !.origin_joint_positions = origin,
                                 !.master_iteration_count = master,
                                 !.first_iteration = complete,
                                 !.desired_position = desired ],
             return |-> IF complete THEN PROGRESS_COMPLETE ELSE progress ]

NoJointCall ==
  [ called |-> FALSE, return |-> 0, call |-> 0, previous |-> 0,
    before |-> << >> ]

JointInit ==
  /\ WalkParked
  /\ SequencerParked
  /\ ManualPosingParked /\ BodyPosingParked /\ AutoPosingParked
  /\ ImuPosingParked
  /\ TipCurvesParked
  /\ \E p \in InitialJointPositions, target \in JointTargets, halves \in MoveTimes :
       jointPosing = [ leg |-> [ first_iteration |-> TRUE,
                                 master_iteration_count |-> 0,
                                 origin_joint_positions |-> << >>,
                                 current_position |-> p,
                                 desired_position |-> p ],
                       target |-> target, halves |-> halves,
                       last |-> NoJointCall ]

\* the move under way has returned PROGRESS_COMPLETE, or none has begun
MoveOver == ~jointPosing.last.called \/ jointPosing.last.return = PROGRESS_COMPLETE

\* a tick of packLegs or unpackLegs: one call with the target and time of
\* the move
MoveToJointPosition ==
  /\ \E r \in { moveToJointPosition(jointPosing.leg, jointPosing.target,
                                    jointPosing.halves) } :
       jointPosing' =
         [ jointPosing EXCEPT
             !.leg = r.leg,
             !.last = [ called |-> TRUE, return |-> r.return,
                        call |-> IF MoveOver THEN 1 ELSE jointPosing.last.call + 1,
                        previous |-> IF MoveOver THEN 0 ELSE jointPosing.last.return,
                        before |-> jointPosing.leg ] ]
  /\ UNCHANGED << walkVars, seqVars, manualPosing, bodyPosing, autoPosing,
                  imuPosing, curveVars >>

\* the joints have followed the desired positions
JointsFollow ==
  /\ jointPosing.leg.current_position # jointPosing.leg.desired_position
  /\ jointPosing' = [ jointPosing EXCEPT
                        !.leg.current_position = jointPosing.leg.desired_position ]
  /\ UNCHANGED << walkVars, seqVars, manualPosing, bodyPosing, autoPosing,
                  imuPosing, curveVars >>

\* between two moves the caller picks another target and time
NewMove ==
  /\ jointPosing.last.called /\ jointPosing.last.return = PROGRESS_COMPLETE
  /\ \E target \in JointTargets, halves \in MoveTimes :
       /\ << target, halves >> # << jointPosing.target, jointPosing.halves >>
       /\ jointPosing' = [ jointPosing EXCEPT !.target = target,
                                              !.halves = halves,
                                              !.last = NoJointCall ]
  /\ UNCHANGED << walkVars, seqVars, manualPosing, bodyPosing, autoPosing,
                  imuPosing, curveVars >>

JointNext == MoveToJointPosition \/ JointsFollow \/ NewMove

JointSpec == JointInit /\ [][JointNext]_vars

JointLast == jointPosing.last

\* C34: with the same target and time on every call, a call that begins a
\* move with all joints within JOINT_TOLERANCE of the target returns 100 and
\* leaves the desired positions, the iteration count and the
\* first-iteration flag as they were; otherwise the calls of the move
\* return values in 0 .. 99 that never decrease until call number
\* N = max(1, round(time_to_move / time_delta)), which returns 100 with the
\* desired positions on the target; the call after a 100 begins a move
\* again, from the joint positions current at that call.
C34_MoveCompletes ==
  JointLast.called =>
    LET N == IF jointPosing.halves <= 2 THEN 1
             ELSE (jointPosing.halves + 1) \div 2
        at_target == \A i \in Joints :
                       Abs(jointPosing.target[i]
                             - JointLast.before.current_position[i]) < 2
    IN  /\ JointLast.call >= 1 /\ JointLast.call <= N
        /\ JointLast.call = 1 /\ at_target =>
             /\ JointLast.return = 100
             /\ jointPosing.leg.desired_position = JointLast.before.desired_position
             /\ jointPosing.leg.master_iteration_count
                  = JointLast.before.master_iteration_count
             /\ jointPosing.leg.first_iteration
             /\ JointLast.before.first_iteration
        /\ ~(JointLast.call = 1 /\ at_target) =>
             /\ JointLast.return = 100 <=> JointLast.call = N
             /\ JointLast.return < 100 =>
                  /\ JointLast.return >= 0 /\ JointLast.return <= 99
                  /\ JointLast.return >= JointLast.previous
             /\ JointLast.return = 100 =>
                  /\ jointPosing.leg.desired_position = jointPosing.target
                  /\ jointPosing.leg.first_iteration
             /\ jointPosing.leg.master_iteration_count = JointLast.call
        /\ JointLast.call = 1 =>
             jointPosing.leg.origin_joint_positions
               = JointLast.before.current_position

\* the third and last call of a move that began away from the target,
\* after a move that had completed
C34_Witness ==
  /\ JointLast.called /\ JointLast.call = 3 /\ JointLast.return = 100
  /\ JointLast.previous > 0
  /\ jointPosing.leg.origin_joint_positions \notin InitialJointPositions
  /\ jointPosing.leg.desired_position = jointPosing.target


\* ------------------------------------------------------- the walk state cycle
\* the state that follows a walk state on the cycle
NextWalkState(s) ==
  CASE s = "STOPPED"  -> "STARTING"
    [] s = "STARTING" -> "MOVING"
    [] s = "MOVING"   -> "STOPPING"
    [] s = "STOPPING" -> "STOPPED"

\* C35: over a tick the walk state stays or moves one place along the cycle
\* Stopped -> Starting -> Moving -> Stopping -> Stopped; a tick that begins
\* in Stopping uses a zero speed whatever the command and ends in Stopping or
\* Stopped, a non-zero command starting the walk only on a tick that begins
\* in Stopped; a tick that begins in Starting ends in Starting or Moving
\* whatever the command, and ends in Moving exactly when both counters had
\* reached the leg count.
C35_StateCycle ==
  prev.ticked =>
    /\ state \in { prev.state, NextWalkState(prev.state) }
    /\ prev.state = "STOPPING" =>
         /\ prev.normalSpeed = 0
         /\ state \in { "STOPPING", "STOPPED" }
         /\ state = "STOPPED" <=> prev.legsInCorrectPhase = NUM_LEGS
    /\ state = "STARTING" /\ prev.state # "STARTING" =>
         prev.state = "STOPPED" /\ prev.command # 0
    /\ prev.state = "STOPPED" => (state = "STARTING" <=> prev.command # 0)
    /\ prev.state = "STARTING" =>
         /\ state \in { "STARTING", "MOVING" }
         /\ state = "MOVING" <=> /\ prev.legsInCorrectPhase = NUM_LEGS
                                 /\ prev.legsCompletedFirstStep = NUM_LEGS
    /\ prev.state = "MOVING" => (state = "STOPPING" <=> prev.command = 0)

\* a non-zero command during Stopping on the tick that enters Stopped
C35_Witness ==
  /\ prev.ticked /\ prev.state = "STOPPING" /\ prev.command # 0
  /\ state = "STOPPED"


\* ------------------------------------------------------- the leg counters
\* the legs marked inCorrectPhase, and those marked completedFirstStep
LegsInCorrectPhase(steppers) == { l \in Legs : steppers[l].inCorrectPhase }

LegsCompletedFirstStep(steppers) == { l \in Legs : steppers[l].completedFirstStep }

\* C36: at the end of every tick legsInCorrectPhase is the number of legs
\* marked inCorrectPhase, and both counters lie in 0 .. NUM_LEGS; over a
\* tick inside a Starting or a Stopping period no mark is removed and
\* legsInCorrectPhase grows by the number of legs newly marked, and inside
\* a Starting period legsCompletedFirstStep is the number of legs marked
\* completedFirstStep and grows by the number newly marked.
C36_CountedOnce ==
  [][ /\ legsInCorrectPhase' = Cardinality(LegsInCorrectPhase(legSteppers'))
      /\ legsInCorrectPhase' \in 0 .. NUM_LEGS
      /\ legsCompletedFirstStep' \in 0 .. NUM_LEGS
      /\ state' \in { "STARTING", "STOPPING" } /\ state' = state =>
           /\ LegsInCorrectPhase(legSteppers) \subseteq LegsInCorrectPhase(legSteppers')
           /\ legsInCorrectPhase' - legsInCorrectPhase =
                Cardinality(LegsInCorrectPhase(legSteppers')
                              \ LegsInCorrectPhase(legSteppers))
      /\ state' = "STARTING" =>
           /\ legsCompletedFirstStep' =
                Cardinality(LegsCompletedFirstStep(legSteppers'))
           /\ state = "STARTING" =>
                /\ LegsCompletedFirstStep(legSteppers)
                     \subseteq LegsCompletedFirstStep(legSteppers')
                /\ legsCompletedFirstStep' - legsCompletedFirstStep =
                     Cardinality(LegsCompletedFirstStep(legSteppers')
                                   \ LegsCompletedFirstStep(legSteppers))
    ]_vars

\* in Starting with every leg marked inCorrectPhase, some legs counted as
\* having completed their first step and others not yet
C36_Witness ==
  /\ prev.ticked /\ prev.state = "STARTING" /\ state = "STARTING"
  /\ legsInCorrectPhase = NUM_LEGS
  /\ legsCompletedFirstStep > 0 /\ legsCompletedFirstStep < NUM_LEGS
  /\ \E l \in Legs : Leg(l).phaseOffset > swingStart /\ Leg(l).phaseOffset < swingEnd


\* ------------------------------------------- the end of a vertical step
\* the call just made ended a vertical transition step
VerticalStepEnded == Last.called /\ Last.vertical /\ Last.stepped

\* C37: a call ends a vertical transition step only if stepToPosition
\* returned PROGRESS_COMPLETE for every leg on that call, or the call is
\* of a first execution and some leg was below the safety factor.
C37_AllLegsFinished ==
  VerticalStepEnded =>
    \/ \A l \in PoserLegs : Last.finished[l]
    \/ Last.first /\ \E l \in PoserLegs : BelowSafetyFactor(l)


\* ------------------------------------------------- a change of stance
\* Calls of stepToNewStance for a robot of four legs, two in each group,
\* from every combination of legs on and off their default tip positions,
\* until a call returns 100.  sequencer holds the step time and what the
\* calls of the manoeuvre have done so far: the legs stepToPosition was
\* called for (stepped), how often it returned PROGRESS_COMPLETE for a leg
\* (completed, up to 2), the legs for which it did so from its early exit
\* (early), and the last two values it returned for a leg (returned,
\* previous; -1 for none).
MaxStanceCalls == 7

StanceLegs == 0 .. 3

\* step times, in half time-deltas: 1, 2 and 3 iterations to step
StanceStepTimes == { 2, 4, 6 }

StanceInit ==
  /\ WalkParked
  /\ PosingParked
  /\ TipCurvesParked
  /\ poser = InitPoser
  /\ \E off \in SUBSET StanceLegs, stepTime \in StanceStepTimes :
       /\ legPosers = [ l \in StanceLegs |->
                          InitLegPoser(IF l \in off THEN PackedTipPosition
                                       ELSE DefaultTipPosition) ]
       /\ sequencer = [ stepTime |-> stepTime, calls |-> 0, return |-> 0,
                        group |-> 0,
                        stepped |-> { },
                        completed |-> [ l \in StanceLegs |-> 0 ],
                        early |-> { },
                        returned |-> [ l \in StanceLegs |-> -1 ],
                        previous |-> [ l \in StanceLegs |-> -1 ] ]

\* what stepToPosition returns for leg l on the call about to be made
StanceProgress(l) ==
  stepToPosition(legPosers[l], DefaultTipPosition, SwingHeight,
                 NumIterations(sequencer.stepTime, FALSE)).progress

\* one call of stepToNewStance by the state machine, which calls it on
\* every tick until it returns 100
StepToNewStanceCall ==
  /\ sequencer.calls < MaxStanceCalls
  /\ sequencer.calls > 0 => sequencer.return # PROGRESS_COMPLETE
  /\ \E r \in { stepToNewStance(poser, legPosers, sequencer.stepTime) } :
       LET called == { l \in StanceLegs : getGroup(l) = poser.current_group }
           done == { l \in called : StanceProgress(l) = PROGRESS_COMPLETE }
       IN  /\ poser' = r.pc
           /\ legPosers' = r.legs
           /\ sequencer' =
                [ sequencer EXCEPT
                    !.calls = @ + 1,
                    !.return = r.return,
                    !.group = poser.current_group,
                    !.stepped = @ \cup called,
                    !.completed = [ l \in StanceLegs |->
                                      IF l \in done THEN Min(@[l] + 1, 2) ELSE @[l] ],
                    !.early = @ \cup { l \in done : legPosers[l].first_iteration
                                                      /\ legPosers[l].tip = DefaultTipPosition },
                    !.returned = [ l \in StanceLegs |->
                                     IF l \in called THEN StanceProgress(l) ELSE @[l] ],
                    !.previous = [ l \in StanceLegs |->
                                     IF l \in called THEN sequencer.returned[l]
                                     ELSE @[l] ] ]
  /\ UNCHANGED << walkVars, poseVars, curveVars >>

StanceNext == StepToNewStanceCall

StanceSpec == StanceInit /\ [][StanceNext]_vars

\* the legs whose step has returned PROGRESS_COMPLETE in this manoeuvre
StanceCompleted == { l \in StanceLegs : sequencer.completed[l] > 0 }

\* C38: in stepToNewStance no leg of group 1 steps before every leg of
\* group 0 has completed its step; legs_completed_step never exceeds the
\* leg count and no leg's completion is counted more than once in a
\* manoeuvre; 100 is returned only by a call after which every leg of both
\* groups has completed and the counter is back at 0, legs already on
\* their targets included.
C38_GroupsInTurn ==
  sequencer.calls > 0 =>
    /\ (\E l \in sequencer.stepped : getGroup(l) = 1) =>
         \A l \in StanceLegs : getGroup(l) = 0 => l \in StanceCompleted
    /\ poser.legs_completed_step <= getLegCount(legPosers)
    /\ \A l \in StanceLegs : sequencer.completed[l] <= 1
    /\ sequencer.return = PROGRESS_COMPLETE =>
         /\ StanceCompleted = StanceLegs
         /\ \A l \in StanceLegs : legPosers[l].first_iteration
         /\ poser.legs_completed_step = 0 /\ poser.current_group = 0


\* ----------------------------------------------- a StartUp after a reset
\* the controller as the reset block (166-179) leaves it is the one a
\* first execution starts from
FreshEntry(pc) ==
  /\ pc.first_sequence_execution /\ pc.transition_step = 0
  /\ ~pc.horizontal_transition_complete /\ ~pc.vertical_transition_complete
  /\ ~pc.proximity_alert /\ pc.set_target
  /\ pc.current_group = 0 /\ pc.legs_completed_step = 0

\* C39: a StartUp call that begins with reset_transition_sequence set goes
\* on as a first execution from step 0 with horizontal_transition_complete,
\* vertical_transition_complete and proximity_alert clear, set_target set,
\* current_group and legs_completed_step 0, whatever the sequence before
\* it left; its transition step is a horizontal one that is not final and
\* that sets every leg's target (set_target) before stepping.
C39_FreshStart ==
  Last.called /\ Last.wasReset =>
    /\ FreshEntry(Last.entry.pc)
    /\ ~Last.final
    /\ Last.horizontal /\ ~Last.vertical


MaxSequenceCalls == 12

\* the first StartUp is cancelled while under way: the caller sets
\* reset_transition_sequence and stops calling; the next StartUp starts
\* from wherever the legs and the controller were left
Cancel ==
  /\ ~sequencer.fatal
  /\ sequencer.calling = "START_UP" /\ sequencer.operations = 1
  /\ poser' = [ poser EXCEPT !.reset_transition_sequence = TRUE ]
  /\ sequencer' = [ sequencer EXCEPT !.calling = "NONE", !.unpacked = FALSE ]
  /\ UNCHANGED << legPosers, walkVars, poseVars, curveVars >>

\* the calls of StartUp, as long as the count of calls is within the bound
\* (a StartUp after a cancellation may never complete)
StartUpCall == sequencer.calls < MaxSequenceCalls /\ StartUp

CancelNext == StartUpCall \/ Cancel

CancelSpec == SeqInit /\ [][CancelNext]_vars


\* ------------------------------------------ the curves of stepToPosition
\* the component was evaluated on a curve at a time within (0, 1]: a
\* component is a coordinate (the origin of a component that does not
\* move, or the target, the secondary curve at time 1) or the point
\* Along records with its time num / den
WithinCurve(component) ==
  Len(component) > 1 => component[4] > 0 /\ component[4] <= component[5]

\* stepToPosition has moved leg l in this manoeuvre
StepsToPosition(l) == sequencer.returned[l] >= 0 /\ l \notin sequencer.early

\* C40: for every number of iterations, odd or even, stepToPosition
\* evaluates its curves at times in (0, 1] only; a call that returns 100
\* leaves the tip on the target, the secondary curve at time 1; the values
\* returned before it are in 0 .. 99 and never decrease.
C40_CurveEndsOnTarget ==
  \A l \in StanceLegs : StepsToPosition(l) =>
    /\ WithinCurve(legPosers[l].tip.h) /\ WithinCurve(legPosers[l].tip.z)
    /\ sequencer.returned[l] = PROGRESS_COMPLETE =>
         legPosers[l].tip = DefaultTipPosition
    /\ sequencer.returned[l] # PROGRESS_COMPLETE =>
         /\ sequencer.returned[l] \in 0 .. (PROGRESS_COMPLETE - 1)
         /\ sequencer.previous[l] # PROGRESS_COMPLETE =>
              sequencer.previous[l] <= sequencer.returned[l]
====
